---- MODULE Spec2Model ----
(***************************************************************************)
(* Model of the music graph: the Graph store of src/src/graph.js (the      *)
(* TypeScript class at lines 167-293), the ingestion functions that fuse   *)
(* base relations, song credits and albums into it, the query resolvers   *)
(* of src/server/src/resolvers.ts, and the MusicGraphDataSource of         *)
(* src/server/src/datasource.ts.                                           *)
(*                                                                         *)
(* JavaScript strings are sequences of UTF-16 code units, so ids, names    *)
(* and queries are sequences of numbers; a JavaScript Map is a sequence of *)
(* <<key, value>> pairs in insertion order; a JavaScript object is a       *)
(* function from field names to values.                                    *)
(***************************************************************************)
EXTENDS Integers, Sequences, FiniteSets, TLC

VARIABLES graph, last, ops, pc, input,
          heap,    \* the Graph instances made by new Graph() in initialize()
          ds,      \* the fields of the MusicGraphDataSource
          files,   \* the three data files
          ctx,     \* the graph references held by request contexts
          frame    \* the locals of the shortestPath or connectedComponents
                   \* call that is running

vars == <<graph, last, ops, pc, input, heap, ds, files, ctx, frame>>

\* the state of the data source and its readers
dataVars == <<heap, ds, files, ctx>>

\* the state of a Graph under direct calls and of one ingestion
storeVars == <<graph, ops, pc, input>>

\* no search is running
NoFrame == [fn |-> "none"]

(***************************************************************************)
(* Bounds.                                                                 *)
(***************************************************************************)
MaxOps == 3
MaxSongs == 2
MaxAlbums == 1
MaxBuilds == 2
MaxReaders == 1
MaxNodes == 6

(***************************************************************************)
(* Strings.                                                                *)
(***************************************************************************)
ChUpperA == 65
ChUpperC == 67
ChUpperZ == 90
ChBar == 124
CaseOffset == 32

EmptyStr == <<>>

\* a < b on JavaScript strings: lexicographic order of the code units
RECURSIVE StrLess(_, _)
StrLess(a, b) ==
  IF b = <<>> THEN FALSE
  ELSE IF a = <<>> THEN TRUE
  ELSE IF Head(a) # Head(b) THEN Head(a) < Head(b)
  ELSE StrLess(Tail(a), Tail(b))

\* String.prototype.toLowerCase on the code units A-Z
toLowerCase(s) ==
  [i \in 1..Len(s) |->
     IF s[i] >= ChUpperA /\ s[i] <= ChUpperZ THEN s[i] + CaseOffset ELSE s[i]]

\* String.prototype.includes
includes(s, q) ==
  \E i \in 0..(Len(s) - Len(q)) : SubSeq(s, i + 1, i + Len(q)) = q

\* Array.prototype.includes
arrayIncludes(arr, x) == \E i \in 1..Len(arr) : arr[i] = x

(***************************************************************************)
(* JavaScript Map, insertion ordered.                                      *)
(***************************************************************************)
MapHas(m, k) == \E i \in 1..Len(m) : m[i][1] = k
MapIndex(m, k) == CHOOSE i \in 1..Len(m) : m[i][1] = k
MapGet(m, k) == m[MapIndex(m, k)][2]
\* a set that moves an overwritten key to the end of the order
MapSetMovingToEnd(m, k, v) ==
  Append(SelectSeq(m, LAMBDA entry : entry[1] # k), <<k, v>>)

MapSet(m, k, v) ==
  IF MapHas(m, k) THEN [m EXCEPT ![MapIndex(m, k)] = <<k, v>>]
  ELSE Append(m, <<k, v>>)
MapKeys(m) == [i \in 1..Len(m) |-> m[i][1]]
MapSize(m) == Len(m)

\* object spread { ...base, ...over }
ObjSpread(base, over) ==
  [k \in (DOMAIN base) \cup (DOMAIN over) |->
     IF k \in DOMAIN over THEN over[k] ELSE base[k]]

(***************************************************************************)
(* Graph store.                                                            *)
(***************************************************************************)
NewGraph == [adjacency |-> <<>>, nodeData |-> <<>>]

\* node.id ?? node.name
NodeKey(node) == IF "id" \in DOMAIN node THEN node.id ELSE node.name

\* addNode throws when the id is the empty string
addNodeThrows(node) == NodeKey(node) = EmptyStr

\* addNode as a merge into the existing record
addNodeMerging(g, node) ==
  LET id == NodeKey(node)
      existing == IF MapHas(g.nodeData, id) THEN MapGet(g.nodeData, id)
                  ELSE [id |-> id]
  IN [adjacency |-> IF MapHas(g.adjacency, id) THEN g.adjacency
                    ELSE MapSet(g.adjacency, id, <<>>),
      nodeData  |-> MapSet(g.nodeData, id, ObjSpread(existing, ObjSpread([id |-> id], node)))]

\* addNode that gives the id an empty adjacency entry whether it is new or not
addNodeResetting(g, node) ==
  LET id == NodeKey(node) IN
  [adjacency |-> MapSet(g.adjacency, id, <<>>),
   nodeData  |-> MapSet(g.nodeData, id, ObjSpread([id |-> id], node))]

addNode(g, node) ==
  LET id == NodeKey(node) IN
  [adjacency |-> IF MapHas(g.adjacency, id) THEN g.adjacency
                 ELSE MapSet(g.adjacency, id, <<>>),
   nodeData  |-> MapSet(g.nodeData, id, ObjSpread([id |-> id], node))]

StubNode(id) == [id |-> id, name |-> id]

\* the default of addEdge's weight parameter
DefaultWeight == 1

\* addEdge that records the edge at a only
addEdgeOneWay(g, a, b, weight) ==
  LET g1 == IF MapHas(g.adjacency, a) THEN g ELSE addNode(g, StubNode(a))
      g2 == IF MapHas(g1.adjacency, b) THEN g1 ELSE addNode(g1, StubNode(b))
  IN [adjacency |-> MapSet(g2.adjacency, a, MapSet(MapGet(g2.adjacency, a), b, weight)),
      nodeData |-> g2.nodeData]

addEdge(g, a, b, weight) ==
  LET g1 == IF MapHas(g.adjacency, a) THEN g ELSE addNode(g, StubNode(a))
      g2 == IF MapHas(g1.adjacency, b) THEN g1 ELSE addNode(g1, StubNode(b))
      adjA == MapSet(g2.adjacency, a, MapSet(MapGet(g2.adjacency, a), b, weight))
      adjB == MapSet(adjA, b, MapSet(MapGet(adjA, b), a, weight))
  IN [adjacency |-> adjB, nodeData |-> g2.nodeData]

neighbors(g, id) ==
  IF MapHas(g.adjacency, id) THEN MapKeys(MapGet(g.adjacency, id)) ELSE <<>>

degree(g, id) ==
  IF MapHas(g.adjacency, id) THEN MapSize(MapGet(g.adjacency, id)) ELSE 0

nodes(g) == MapKeys(g.adjacency)

\* the dedup key of edges(): `${a}|${b}` with the smaller id first
EdgeKey(a, b) ==
  IF StrLess(a, b) THEN a \o <<ChBar>> \o b ELSE b \o <<ChBar>> \o a

\* the (a, b) pairs in the order the nested loops of edges() visit them
RECURSIVE AdjacencyPairs(_, _)
AdjacencyPairs(adj, i) ==
  IF i > Len(adj) THEN <<>>
  ELSE [j \in 1..Len(adj[i][2]) |-> <<adj[i][1], adj[i][2][j][1]>>]
       \o AdjacencyPairs(adj, i + 1)

RECURSIVE edgesLoop(_, _, _, _)
edgesLoop(pairs, i, seen, all) ==
  IF i > Len(pairs) THEN all
  ELSE LET key == EdgeKey(pairs[i][1], pairs[i][2]) IN
       IF key \in seen THEN edgesLoop(pairs, i + 1, seen, all)
       ELSE edgesLoop(pairs, i + 1, seen \cup {key}, Append(all, pairs[i]))

edges(g) == edgesLoop(AdjacencyPairs(g.adjacency, 1), 1, {}, <<>>)

(***************************************************************************)
(* Algorithms.  A result of type string[] | null is a record: isNull tells *)
(* null from an array, path is the array.                                  *)
(***************************************************************************)
Null == [isNull |-> TRUE, path |-> <<>>]
Some(p) == [isNull |-> FALSE, path |-> p]

Reverse(s) == [i \in 1..Len(s) |-> s[Len(s) + 1 - i]]

\* reconstructPath without the final reverse()
RECURSIVE reconstructLoopUnreversed(_, _, _, _)
reconstructLoopUnreversed(parent, source, cur, path) ==
  IF cur = source THEN Some(path)
  ELSE IF ~MapHas(parent, cur) THEN Null
  ELSE LET nxt == MapGet(parent, cur) IN
       reconstructLoopUnreversed(parent, source, nxt, Append(path, nxt))

RECURSIVE reconstructLoop(_, _, _, _)
reconstructLoop(parent, source, cur, path) ==
  IF cur = source THEN Some(Reverse(path))
  ELSE IF ~MapHas(parent, cur) THEN Null
  ELSE LET nxt == MapGet(parent, cur) IN
       reconstructLoop(parent, source, nxt, Append(path, nxt))

reconstructPath(parent, source, target) ==
  reconstructLoop(parent, source, target, <<target>>)

\* the for loop over neighbors(current) in shortestPath; st.found is the
\* early return at nbr === target
RECURSIVE bfsNeighbors(_, _, _, _, _)
bfsNeighbors(nbrs, i, current, target, st) ==
  IF i > Len(nbrs) THEN st
  ELSE LET nbr == nbrs[i] IN
       IF nbr \in st.visited THEN bfsNeighbors(nbrs, i + 1, current, target, st)
       ELSE LET st1 == [st EXCEPT !.visited = @ \cup {nbr},
                                  !.parent = MapSet(@, nbr, current)] IN
            IF nbr = target THEN [st1 EXCEPT !.found = TRUE]
            ELSE bfsNeighbors(nbrs, i + 1, current, target,
                              [st1 EXCEPT !.queue = Append(@, nbr)])

\* the while (queue.length) loop of shortestPath
RECURSIVE bfsLoop(_, _, _, _)
bfsLoop(g, source, target, st) ==
  IF st.queue = <<>> THEN Null
  ELSE LET current == Head(st.queue)
           st1 == bfsNeighbors(neighbors(g, current), 1, current, target,
                               [st EXCEPT !.queue = Tail(@)])
       IN IF st1.found THEN reconstructPath(st1.parent, source, target)
          ELSE bfsLoop(g, source, target, st1)

\* shortestPath without the check that both endpoints are nodes
shortestPathUnchecked(g, source, target) ==
  IF source = target THEN Some(<<source>>)
  ELSE bfsLoop(g, source, target,
               [queue |-> <<source>>, visited |-> {source},
                parent |-> <<>>, found |-> FALSE])

shortestPath(g, source, target) ==
  IF ~MapHas(g.adjacency, source) \/ ~MapHas(g.adjacency, target) THEN Null
  ELSE IF source = target THEN Some(<<source>>)
  ELSE bfsLoop(g, source, target,
               [queue |-> <<source>>, visited |-> {source},
                parent |-> <<>>, found |-> FALSE])

\* the for loop over neighbors(node) in connectedComponents
RECURSIVE ccNeighbors(_, _, _)
ccNeighbors(nbrs, i, st) ==
  IF i > Len(nbrs) THEN st
  ELSE IF nbrs[i] \in st.visited THEN ccNeighbors(nbrs, i + 1, st)
  ELSE ccNeighbors(nbrs, i + 1,
                   [st EXCEPT !.visited = @ \cup {nbrs[i]},
                              !.stack = Append(@, nbrs[i])])

\* the while (stack.length) loop of connectedComponents
RECURSIVE ccWhile(_, _)
ccWhile(g, st) ==
  IF st.stack = <<>> THEN st
  ELSE LET node == st.stack[Len(st.stack)]
           popped == [st EXCEPT !.stack = SubSeq(@, 1, Len(@) - 1),
                                !.comp = Append(@, node)]
       IN ccWhile(g, ccNeighbors(neighbors(g, node), 1, popped))

\* connectedComponents with a visited set that is reset for every start node
RECURSIVE ccForForgetful(_, _, _, _, _)
ccForForgetful(g, order, i, visited, components) ==
  IF i > Len(order) THEN components
  ELSE LET st == ccWhile(g, [visited |-> {order[i]},
                             stack |-> <<order[i]>>, comp |-> <<>>])
       IN ccForForgetful(g, order, i + 1, st.visited, Append(components, st.comp))

\* the for loop over nodes() of connectedComponents
RECURSIVE ccFor(_, _, _, _, _)
ccFor(g, order, i, visited, components) ==
  IF i > Len(order) THEN components
  ELSE IF order[i] \in visited THEN ccFor(g, order, i + 1, visited, components)
  ELSE LET st == ccWhile(g, [visited |-> visited \cup {order[i]},
                             stack |-> <<order[i]>>, comp |-> <<>>])
       IN ccFor(g, order, i + 1, st.visited, Append(components, st.comp))

\* connectedComponents that makes a component of every node
connectedComponentsSingletons(g) == [i \in 1..Len(nodes(g)) |-> <<nodes(g)[i]>>]

connectedComponents(g) == ccFor(g, nodes(g), 1, {}, <<>>)

\* Number.prototype.toString for a non-negative integer
ChDigit0 == 48
RECURSIVE DecimalString(_)
DecimalString(n) ==
  IF n < 10 THEN <<ChDigit0 + n>>
  ELSE Append(DecimalString(n \div 10), ChDigit0 + (n % 10))

\* `C${idx + 1}` for the zero-based index idx
CommunityLabel(idx) == <<ChUpperC>> \o DecimalString(idx + 1)

\* assignCommunities that keeps the label a record already carries
RECURSIVE assignCompKeeping(_, _, _, _)
assignCompKeeping(nodeData, comp, j, communityId) ==
  IF j > Len(comp) THEN nodeData
  ELSE LET id == comp[j]
           data == IF MapHas(nodeData, id) THEN MapGet(nodeData, id)
                   ELSE StubNode(id)
       IN assignCompKeeping(MapSet(nodeData, id,
                                   ObjSpread([communityId |-> communityId], data)),
                            comp, j + 1, communityId)

RECURSIVE assignComp(_, _, _, _)
assignComp(nodeData, comp, j, communityId) ==
  IF j > Len(comp) THEN nodeData
  ELSE LET id == comp[j]
           data == IF MapHas(nodeData, id) THEN MapGet(nodeData, id)
                   ELSE StubNode(id)
       IN assignComp(MapSet(nodeData, id,
                            ObjSpread(data, [communityId |-> communityId])),
                     comp, j + 1, communityId)

RECURSIVE assignLoop(_, _, _)
assignLoop(nodeData, components, k) ==
  IF k > Len(components) THEN nodeData
  ELSE assignLoop(assignComp(nodeData, components[k], 1, CommunityLabel(k - 1)),
                  components, k + 1)

assignCommunities(g) ==
  [adjacency |-> g.adjacency,
   nodeData  |-> assignLoop(g.nodeData, connectedComponents(g), 1)]

(***************************************************************************)
(* Ingestion.  A field whose value is undefined is an absent field (it     *)
(* reads the same); a JavaScript Set is a duplicate-free sequence in       *)
(* insertion order.                                                        *)
(***************************************************************************)
SetAdd(set, x) == IF arrayIncludes(set, x) THEN set ELSE Append(set, x)

RECURSIVE SetAddAll(_, _, _)
SetAddAll(set, arr, i) ==
  IF i > Len(arr) THEN set ELSE SetAddAll(SetAdd(set, arr[i]), arr, i + 1)

\* an optional array field of an object, read by a for-of loop or ?.includes
OptList(obj, field) == IF field \in DOMAIN obj THEN obj[field] ELSE <<>>

\* the object literal passed to addNode for a song or an album: the fields
\* copied from the record when it has them
CopyFields(literal, record, fields) ==
  [k \in (DOMAIN literal) \cup (fields \cap DOMAIN record) |->
     IF k \in DOMAIN literal THEN literal[k] ELSE record[k]]

\* the value of a const: {e(x) : x \in {v}} computes v once and names it x
Only(S) == CHOOSE x \in S : TRUE

\* base relations: the two loops of initialize() over artists.json
RECURSIVE loadBaseNodes(_, _, _)
loadBaseNodes(g, nodeList, i) ==
  IF i > Len(nodeList) THEN g
  ELSE Only({loadBaseNodes(added, nodeList, i + 1) :
               added \in {addNode(g, ObjSpread(nodeList[i], [nodeType |-> "artist"]))}})

RECURSIVE loadBaseEdges(_, _, _)
loadBaseEdges(g, edgeList, i) ==
  IF i > Len(edgeList) THEN g
  ELSE LET e == edgeList[i]
           weight == IF "weight" \in DOMAIN e THEN e.weight ELSE DefaultWeight
       IN Only({loadBaseEdges(added, edgeList, i + 1) :
                  added \in {addEdge(g, e.source, e.target, weight)}})

loadBase(data) ==
  loadBaseEdges(loadBaseNodes(NewGraph, data.nodes, 1), data.edges, 1)

\* allCreditedArtists without the performers of the credits
allCreditedArtistsNoPerformers(song) ==
  SetAddAll(
    SetAddAll(
      SetAddAll(<<>>, song.artistIds, 1),
      OptList(song.credits, "writers"), 1),
    OptList(song.credits, "producers"), 1)

\* the Set allCreditedArtists of one song
allCreditedArtists(song) ==
  SetAddAll(
    SetAddAll(
      SetAddAll(
        SetAddAll(<<>>, song.artistIds, 1),
        OptList(song.credits, "writers"), 1),
      OptList(song.credits, "producers"), 1),
    OptList(song.credits, "performers"), 1)

\* the relation label with the writers list tested first
songRelationWritersFirst(song, artistId) ==
  IF arrayIncludes(OptList(song.credits, "writers"), artistId) THEN "writes"
  ELSE IF arrayIncludes(song.artistIds, artistId) THEN "performs"
  ELSE IF arrayIncludes(OptList(song.credits, "producers"), artistId) THEN "produces"
  ELSE IF arrayIncludes(OptList(song.credits, "performers"), artistId) THEN "performs"
  ELSE "credited"

\* the relation label computed for the edge (song, artistId)
songRelation(song, artistId) ==
  IF arrayIncludes(song.artistIds, artistId) THEN "performs"
  ELSE IF arrayIncludes(OptList(song.credits, "writers"), artistId) THEN "writes"
  ELSE IF arrayIncludes(OptList(song.credits, "producers"), artistId) THEN "produces"
  ELSE IF arrayIncludes(OptList(song.credits, "performers"), artistId) THEN "performs"
  ELSE "credited"

\* the stub written whether the id has a record or not
ensureStubAlways(g, id, nodeType) ==
  addNode(g, [id |-> id, name |-> id, nodeType |-> nodeType])

\* create the node for id as a stub of the given kind when it has no record
ensureStub(g, id, nodeType) ==
  IF MapHas(g.nodeData, id) THEN g
  ELSE addNode(g, [id |-> id, name |-> id, nodeType |-> nodeType])

RECURSIVE creditEdges(_, _, _, _)
creditEdges(g, song, artists, i) ==
  IF i > Len(artists) THEN g
  ELSE creditEdges(addEdge(ensureStub(g, artists[i], "artist"),
                           song.id, artists[i], 1),
                   song, artists, i + 1)

\* the object literal of the song node
songNode(song) ==
  CopyFields([id |-> song.id, name |-> song.title, nodeType |-> "song"],
             song, {"year", "credits"})

addSongCredit(g, song) ==
  creditEdges(addNode(g, songNode(song)), song, allCreditedArtists(song), 1)

RECURSIVE songsLoop(_, _, _)
songsLoop(g, songs, i) ==
  IF i > Len(songs) THEN g ELSE songsLoop(addSongCredit(g, songs[i]), songs, i + 1)

addSongCreditsToGraph(g, songCredits) ==
  assignCommunities(songsLoop(g, songCredits.songs, 1))

\* the member loops of addAlbumsToGraph without the nodeData.has test
RECURSIVE albumEdgesOverwriting(_, _, _, _, _)
albumEdgesOverwriting(g, album, members, nodeType, i) ==
  IF i > Len(members) THEN g
  ELSE albumEdgesOverwriting(
         addEdge(addNode(g, [id |-> members[i], name |-> members[i],
                             nodeType |-> nodeType]),
                 album.id, members[i], 1),
         album, members, nodeType, i + 1)

RECURSIVE albumEdges(_, _, _, _, _)
albumEdges(g, album, members, nodeType, i) ==
  IF i > Len(members) THEN g
  ELSE albumEdges(addEdge(ensureStub(g, members[i], nodeType),
                          album.id, members[i], 1),
                  album, members, nodeType, i + 1)

\* the object literal of the album node
albumNode(album) ==
  CopyFields([id |-> album.id, name |-> album.title, nodeType |-> "album"],
             album, {"year", "songIds"})

addAlbum(g, album) ==
  LET g1 == addNode(g, albumNode(album))
      g2 == albumEdges(g1, album, album.artistIds, "artist", 1)
  IN albumEdges(g2, album, OptList(album, "songIds"), "song", 1)

RECURSIVE albumsLoop(_, _, _)
albumsLoop(g, albums, i) ==
  IF i > Len(albums) THEN g ELSE albumsLoop(addAlbum(g, albums[i]), albums, i + 1)

addAlbumsToGraph(g, albumsData) ==
  assignCommunities(albumsLoop(g, albumsData.albums, 1))


(***************************************************************************)
(* Query resolvers.  An optional argument that is not supplied is an       *)
(* absent field of args.                                                   *)
(***************************************************************************)
\* a centrality value degree * scale, scale being 1 or 1 / (N - 1): the pair
\* <<degree, d>> stands for degree * (1 / d)
\* degreeCentrality that scales by 1 / (N - 1) whatever N is
degreeCentralityAlwaysScaled(g, normalize) ==
  LET N == MapSize(g.adjacency)
      scaleDen == IF normalize THEN N - 1 ELSE 1
  IN [i \in 1..Len(nodes(g)) |->
        <<nodes(g)[i], <<degree(g, nodes(g)[i]), scaleDen>>>>]

\* degreeCentrality that scales by 1 / N
degreeCentralityByNodeCount(g, normalize) ==
  LET N == MapSize(g.adjacency)
      scaleDen == IF normalize /\ N > 1 THEN N ELSE 1
  IN [i \in 1..Len(nodes(g)) |->
        <<nodes(g)[i], <<degree(g, nodes(g)[i]), scaleDen>>>>]

degreeCentrality(g, normalize) ==
  LET N == MapSize(g.adjacency)
      scaleDen == IF normalize /\ N > 1 THEN N - 1 ELSE 1
  IN [i \in 1..Len(nodes(g)) |->
        <<nodes(g)[i], <<degree(g, nodes(g)[i]), scaleDen>>>>]

\* String.prototype.toUpperCase on the node type strings
toUpperCase(nodeType) ==
  CASE nodeType = "artist" -> "ARTIST"
    [] nodeType = "song" -> "SONG"
    [] nodeType = "album" -> "ALBUM"
    [] OTHER -> nodeType

toNodeTypeEnum(data) ==
  IF "nodeType" \notin DOMAIN data THEN "ARTIST" ELSE toUpperCase(data.nodeType)

\* the resolver map of the enum: the value a resolver receives for each
\* enum name of a request
NodeType == [ARTIST |-> "artist", SONG |-> "song", ALBUM |-> "album"]

\* graph.nodeData.get(id) || { id, name: id }
nodeDataOrStub(g, id) ==
  IF MapHas(g.nodeData, id) THEN MapGet(g.nodeData, id) ELSE StubNode(id)

createNodeObject(id, g, centrality) ==
  LET data == nodeDataOrStub(g, id) IN
  CopyFields([id |-> id,
              name |-> IF "name" \in DOMAIN data THEN data.name ELSE id,
              nodeType |-> toNodeTypeEnum(data),
              degree |-> degree(g, id),
              centrality |-> IF MapHas(centrality, id) THEN MapGet(centrality, id)
                             ELSE <<0, 1>>],
             data, {"communityId", "year", "credits", "songIds"})

filterByNodeType(nodeObjects, args) ==
  IF "nodeTypes" \notin DOMAIN args \/ Len(args.nodeTypes) = 0 THEN nodeObjects
  ELSE SelectSeq(nodeObjects, LAMBDA node : arrayIncludes(args.nodeTypes, node.nodeType))

\* the map(...).filter(Boolean) over nodes() of Query.search
RECURSIVE searchMatches(_, _, _, _, _)
searchMatches(g, order, i, q, centrality) ==
  IF i > Len(order) THEN <<>>
  ELSE LET id == order[i]
           data == nodeDataOrStub(g, id)
           name == toLowerCase(IF "name" \in DOMAIN data THEN data.name ELSE id)
           rest == searchMatches(g, order, i + 1, q, centrality)
       IN IF ~includes(name, q) THEN rest
          ELSE <<createNodeObject(id, g, centrality)>> \o rest

search(g, args) ==
  LET q == toLowerCase(args.query)
      centrality == degreeCentrality(g, TRUE)
      matched == searchMatches(g, nodes(g), 1, q, centrality)
      filtered == IF "nodeTypes" \in DOMAIN args /\ Len(args.nodeTypes) > 0
                  THEN filterByNodeType(matched, args) ELSE matched
      results == IF "limit" \in DOMAIN args /\ args.limit # 0 /\ args.limit > 0
                 THEN SubSeq(filtered, 1, IF args.limit < Len(filtered)
                                          THEN args.limit ELSE Len(filtered))
                 ELSE filtered
  IN [nodes |-> results, count |-> Len(results)]

\* a resolver result of type T | null
NullResult == [isNull |-> TRUE]
Value(v) == [isNull |-> FALSE, value |-> v]

\* ids.map((id) => createNodeObject(id, graph, centrality))
nodeObjects(g, ids, centrality) ==
  [i \in 1..Len(ids) |-> createNodeObject(ids[i], g, centrality)]

\* nodes.find((n) => n.id === id) finds a node
findsNode(nodeList, id) == \E i \in 1..Len(nodeList) : nodeList[i].id = id

\* Query.graph
resolveGraph(g, args) ==
  LET centrality == degreeCentrality(g, TRUE)
      all == nodeObjects(g, nodes(g), centrality)
      kept == IF "nodeTypes" \in DOMAIN args /\ Len(args.nodeTypes) > 0
              THEN filterByNodeType(all, args) ELSE all
      found(id) == findsNode(kept, id)
      keptEdges == SelectSeq(edges(g), LAMBDA e : found(e[1]) /\ found(e[2]))
      edgeObjects == [i \in 1..Len(keptEdges) |->
                        [source |-> keptEdges[i][1], target |-> keptEdges[i][2],
                         relation |-> "connected"]]
      components == connectedComponents(g)
      mapped == [k \in 1..Len(components) |->
                   LET communityNodes ==
                         nodeObjects(g, SelectSeq(components[k], found), centrality)
                   IN [id |-> CommunityLabel(k - 1), nodes |-> communityNodes,
                       nodeCount |-> Len(communityNodes)]]
      communities == SelectSeq(mapped, LAMBDA comm : Len(comm.nodes) > 0)
  IN [nodes |-> kept, edges |-> edgeObjects, communities |-> communities,
      nodeCount |-> Len(kept), edgeCount |-> Len(edgeObjects)]

\* Query.node
resolveNode(g, args) ==
  IF ~MapHas(g.nodeData, args.id) THEN NullResult
  ELSE Value(createNodeObject(args.id, g, degreeCentrality(g, TRUE)))

\* Query.neighbors
resolveNeighbors(g, args) ==
  LET centrality == degreeCentrality(g, TRUE)
      all == nodeObjects(g, neighbors(g, args.id), centrality)
  IN IF "nodeTypes" \in DOMAIN args /\ Len(args.nodeTypes) > 0
     THEN filterByNodeType(all, args) ELSE all

\* Query.shortestPath
resolveShortestPath(g, args) ==
  LET found == shortestPath(g, args.from, args.to)
  IN IF found.isNull THEN NullResult
     ELSE Value([nodes |-> nodeObjects(g, found.path, degreeCentrality(g, TRUE)),
                 length |-> Len(found.path) - 1])

\* components.find((c) => c.includes(id)): the index, 0 when none
RECURSIVE findComponent(_, _, _)
findComponent(components, id, k) ==
  IF k > Len(components) THEN 0
  ELSE IF arrayIncludes(components[k], id) THEN k
  ELSE findComponent(components, id, k + 1)

\* Query.community
resolveCommunity(g, args) ==
  LET components == connectedComponents(g)
      k == findComponent(components, args.id, 1)
      data == IF MapHas(g.nodeData, args.id) THEN MapGet(g.nodeData, args.id)
              ELSE [id |-> args.id]
      communityId == IF "communityId" \in DOMAIN data /\ data.communityId # EmptyStr
                     THEN data.communityId ELSE <<ChUpperC, ChDigit0>>
  IN IF k = 0 THEN NullResult
     ELSE LET communityNodes ==
                nodeObjects(g, components[k], degreeCentrality(g, TRUE))
          IN Value([id |-> communityId, nodes |-> communityNodes,
                    nodeCount |-> Len(communityNodes)])

\* Query.communities that numbers the entries from C0
resolveCommunitiesFromZero(g) ==
  LET components == connectedComponents(g)
      centrality == degreeCentrality(g, TRUE)
  IN [k \in 1..Len(components) |->
        [id |-> <<ChUpperC>> \o DecimalString(k - 1),
         nodes |-> nodeObjects(g, components[k], centrality),
         nodeCount |-> Len(components[k])]]

\* Query.communities
resolveCommunities(g) ==
  LET components == connectedComponents(g)
      centrality == degreeCentrality(g, TRUE)
  IN [k \in 1..Len(components) |->
        [id |-> CommunityLabel(k - 1),
         nodes |-> nodeObjects(g, components[k], centrality),
         nodeCount |-> Len(components[k])]]


(***************************************************************************)
(* The store under arbitrary calls: Spec.                                  *)
(* Every step is one call of a Graph method; last records the call and,    *)
(* for a query, its return value; ops counts the mutating calls.           *)
(***************************************************************************)
\* the ids "a", "c", "a|b" and "b|c"
IdA == <<97>>
IdC == <<99>>
IdAB == <<97, ChBar, 98>>
IdBC == <<98, ChBar, 99>>
Ids == {IdA, IdC, IdAB, IdBC}

\* the name "Tay"
NameTay == <<84, 97, 121>>

Weights == {1, 2}

NodeInputs ==
  {StubNode(i) : i \in Ids}
  \cup {[id |-> i, name |-> NameTay, nodeType |-> "song", year |-> 1989] : i \in Ids}
  \cup {[name |-> IdA]}

Init ==
  /\ heap = <<>>
  /\ ds = [graph |-> 0, initialized |-> FALSE]
  /\ files = <<>>
  /\ ctx = <<>>
  /\ frame = NoFrame
  /\ graph = NewGraph
  /\ last = [op |-> "new"]
  /\ ops = 0
  /\ pc = "store"
  /\ input = <<>>

AddNode(node) ==
  /\ pc = "store"
  /\ ops < MaxOps
  /\ ~addNodeThrows(node)
  /\ graph' = addNode(graph, node)
  /\ last' = [op |-> "addNode", node |-> node,
              before |-> IF MapHas(graph.nodeData, NodeKey(node))
                         THEN <<MapGet(graph.nodeData, NodeKey(node))>>
                         ELSE <<>>]
  /\ ops' = ops + 1
  /\ UNCHANGED <<pc, input>>
  /\ UNCHANGED <<dataVars, frame>>

AddNodeThrow ==
  /\ pc = "store"
  /\ ops < MaxOps
  /\ addNodeThrows(StubNode(EmptyStr))
  /\ last' = [op |-> "addNodeThrow"]
  /\ ops' = ops + 1
  /\ UNCHANGED <<graph, pc, input>>
  /\ UNCHANGED <<dataVars, frame>>

AddEdge(a, b, weight) ==
  /\ pc = "store"
  /\ ops < MaxOps
  /\ graph' = addEdge(graph, a, b, weight)
  /\ last' = [op |-> "addEdge", a |-> a, b |-> b, weight |-> weight]
  /\ ops' = ops + 1
  /\ UNCHANGED <<pc, input>>
  /\ UNCHANGED <<dataVars, frame>>

AssignCommunities ==
  /\ pc = "store"
  /\ ops < MaxOps
  /\ graph' = assignCommunities(graph)
  /\ last' = [op |-> "assignCommunities"]
  /\ ops' = ops + 1
  /\ UNCHANGED <<pc, input>>
  /\ UNCHANGED <<dataVars, frame>>

ShortestPath(from, to) ==
  /\ pc = "store"
  /\ last' = [op |-> "shortestPath", from |-> from, to |-> to,
              result |-> shortestPath(graph, from, to)]
  /\ UNCHANGED <<graph, ops, pc, input>>
  /\ UNCHANGED <<dataVars, frame>>

ConnectedComponents ==
  /\ pc = "store"
  /\ last' = [op |-> "connectedComponents", result |-> connectedComponents(graph)]
  /\ UNCHANGED <<graph, ops, pc, input>>
  /\ UNCHANGED <<dataVars, frame>>

Edges ==
  /\ pc = "store"
  /\ last' = [op |-> "edges", result |-> edges(graph)]
  /\ UNCHANGED <<graph, ops, pc, input>>
  /\ UNCHANGED <<dataVars, frame>>

DegreeCentrality(normalize) ==
  /\ pc = "store"
  /\ last' = [op |-> "degreeCentrality", normalize |-> normalize,
              result |-> degreeCentrality(graph, normalize)]
  /\ UNCHANGED <<graph, ops, pc, input>>
  /\ UNCHANGED <<dataVars, frame>>

\* the mutating calls
Next ==
  \/ \E node \in NodeInputs : AddNode(node)
  \/ AddNodeThrow
  \/ \E a \in Ids, b \in Ids, weight \in Weights : AddEdge(a, b, weight)
  \/ AssignCommunities

Spec == Init /\ [][Next]_vars

\* a store built with default weights and bare nodes, and the queries on it
NextQuery ==
  \/ \E i \in Ids : AddNode(StubNode(i))
  \/ \E a \in Ids, b \in Ids : AddEdge(a, b, DefaultWeight)
  \/ \E from \in Ids, to \in Ids : ShortestPath(from, to)
  \/ ConnectedComponents
  \/ Edges
  \/ \E normalize \in BOOLEAN : DegreeCentrality(normalize)

SpecQuery == Init /\ [][NextQuery]_vars

(***************************************************************************)
(* Reference notions the properties are stated with.                       *)
(***************************************************************************)
HasNode(g, id) == MapHas(g.adjacency, id)
Adjacent(g, a, b) == HasNode(g, a) /\ MapHas(MapGet(g.adjacency, a), b)
WeightOf(g, a, b) == MapGet(MapGet(g.adjacency, a), b)
NodeSet(g) == {g.adjacency[i][1] : i \in 1..Len(g.adjacency)}
Range(seq) == {seq[i] : i \in 1..Len(seq)}

\* the nodes within k hops of the set S
RECURSIVE Within(_, _, _)
Within(g, S, k) ==
  IF k = 0 THEN S
  ELSE Within(g, S \cup {b \in NodeSet(g) : \E a \in S : Adjacent(g, a, b)}, k - 1)

Connected(g, a, b) ==
  HasNode(g, a) /\ HasNode(g, b) /\ b \in Within(g, {a}, Cardinality(NodeSet(g)))

\* the least number of hops from a to b, for connected a and b
HopDistance(g, a, b) ==
  CHOOSE k \in 0..Cardinality(NodeSet(g)) :
    /\ b \in Within(g, {a}, k)
    /\ \A j \in 0..(k - 1) : b \notin Within(g, {a}, j)

IsWalk(g, p) == \A i \in 1..(Len(p) - 1) : Adjacent(g, p[i], p[i + 1])

\* C1: after any sequence of addNode and addEdge calls, b is in the
\* adjacency of a exactly when a is in the adjacency of b, and the two
\* stored weights are equal.
C1_SymmetricAdjacency ==
  \A a \in Ids, b \in Ids :
    /\ Adjacent(graph, a, b) <=> Adjacent(graph, b, a)
    /\ Adjacent(graph, a, b) => WeightOf(graph, a, b) = WeightOf(graph, b, a)

C1_Witness ==
  /\ last.op = "addEdge"
  /\ last.a # last.b
  /\ last.weight # DefaultWeight
  /\ Adjacent(graph, last.b, last.a)
  /\ WeightOf(graph, last.b, last.a) = last.weight

\* C2: for endpoints in the same connected component, shortestPath returns
\* a sequence that starts with from, ends with to, steps along stored
\* adjacency and has the least possible number of hops; shortestPath(n, n)
\* is [n].
C2_ShortestPathIsShortest ==
  (last.op = "shortestPath" /\ Connected(graph, last.from, last.to)) =>
    /\ ~last.result.isNull
    /\ Len(last.result.path) >= 1
    /\ Head(last.result.path) = last.from
    /\ last.result.path[Len(last.result.path)] = last.to
    /\ IsWalk(graph, last.result.path)
    /\ Len(last.result.path) - 1 = HopDistance(graph, last.from, last.to)
    /\ (last.from = last.to => last.result.path = <<last.from>>)

C2_Witness ==
  /\ last.op = "shortestPath"
  /\ ~last.result.isNull
  /\ Len(last.result.path) = 4
  /\ IsWalk(graph, last.result.path)

\* C3: shortestPath returns none when an endpoint is not a node of the
\* store (also when both are the same unknown id) or when the endpoints lie
\* in different connected components.
C3_NoPathIsNone ==
  (last.op = "shortestPath" /\ ~Connected(graph, last.from, last.to)) =>
    last.result = Null

C3_Witness ==
  /\ last.op = "shortestPath"
  /\ HasNode(graph, last.from)
  /\ HasNode(graph, last.to)
  /\ degree(graph, last.from) > 0
  /\ degree(graph, last.to) > 0
  /\ ~Connected(graph, last.from, last.to)
  /\ last.result = Null

\* C4: connectedComponents() partitions nodes(): every node id occurs in
\* exactly one component exactly once, no component is empty, and the union
\* of the components is the set of ids of nodes().
C4_ComponentsPartitionNodes ==
  last.op = "connectedComponents" =>
    LET comps == last.result IN
    /\ \A k \in 1..Len(comps) : comps[k] # <<>>
    /\ UNION {Range(comps[k]) : k \in 1..Len(comps)} = NodeSet(graph)
    /\ \A id \in NodeSet(graph) :
         Cardinality({<<k, j>> \in (1..Len(comps)) \X (1..Cardinality(NodeSet(graph))) :
                        j <= Len(comps[k]) /\ comps[k][j] = id}) = 1

C4_Witness ==
  /\ last.op = "connectedComponents"
  /\ Len(last.result) >= 2
  /\ \E k \in 1..Len(last.result) : Len(last.result[k]) >= 2

\* the entries of an edges() result that join the unordered pair {a, b}
EntriesFor(all, a, b) ==
  {i \in 1..Len(all) : all[i] = <<a, b>> \/ all[i] = <<b, a>>}

\* C5: re-submitting addEdge with another weight for a pair that is already
\* adjacent, in either argument order, stores the last submitted weight in both
\* directions and leaves edges() with exactly one entry for the pair.
C5_ResubmitOverwrites ==
  [][(/\ ops' = ops + 1
      /\ last'.op = "addEdge"
      /\ Adjacent(graph, last'.a, last'.b)
      /\ WeightOf(graph, last'.a, last'.b) # last'.weight)
     => (/\ WeightOf(graph', last'.a, last'.b) = last'.weight
         /\ WeightOf(graph', last'.b, last'.a) = last'.weight
         /\ Cardinality(EntriesFor(edges(graph'), last'.a, last'.b)) = 1)]_vars

\* C6: edges() has exactly one entry for every unordered pair of adjacent
\* ids and no entry for a pair that is not adjacent.
C6_EdgesExactlyOnce ==
  last.op = "edges" =>
    /\ \A a \in Ids, b \in Ids :
         Adjacent(graph, a, b) =>
           Cardinality(EntriesFor(last.result, a, b)) = 1
    /\ \A i \in 1..Len(last.result) :
         Adjacent(graph, last.result[i][1], last.result[i][2])

\* C8 as stated: addNode on an existing id keeps every field of the existing
\* record that the new record does not supply, and takes the new value of
\* the fields it supplies.
C8_AddNodeMerges ==
  [][(/\ ops' = ops + 1
      /\ last'.op = "addNode"
      /\ last'.before # <<>>)
     => LET old == last'.before[1]
            new == MapGet(graph'.nodeData, NodeKey(last'.node))
        IN /\ \A k \in DOMAIN old : k \in DOMAIN new
           /\ \A k \in (DOMAIN old) \ (DOMAIN last'.node) : new[k] = old[k]
           /\ \A k \in DOMAIN last'.node : new[k] = last'.node[k]]_vars

\* C8 amended: addNode on an existing id replaces the stored record by the
\* id together with the fields of the new record; a field of the existing
\* record that the new record does not supply is dropped.
C8_AddNodeReplaces ==
  [][(/\ ops' = ops + 1
      /\ last'.op = "addNode"
      /\ last'.before # <<>>)
     => LET new == MapGet(graph'.nodeData, NodeKey(last'.node))
        IN /\ DOMAIN new = {"id"} \cup DOMAIN last'.node
           /\ new.id = NodeKey(last'.node)
           /\ \A k \in DOMAIN last'.node : new[k] = last'.node[k]]_vars

C8_Witness ==
  /\ last.op = "addNode"
  /\ last.before # <<>>
  /\ "communityId" \in DOMAIN last.before[1]
  /\ "nodeType" \in DOMAIN last.before[1]
  /\ "nodeType" \notin DOMAIN last.node
  /\ "nodeType" \notin DOMAIN MapGet(graph.nodeData, NodeKey(last.node))

(***************************************************************************)
(* Ingestion of three record sets, in the order of initialize():           *)
(* SpecIngest.  input holds the parsed documents; pc is the phase that     *)
(* runs next.                                                              *)
(***************************************************************************)
\* the name "a Ab"
NameAB == <<97, 32, ChUpperA, 98>>

SeqsUpTo(S, n) == UNION {[1..k -> S] : k \in 0..n}

BaseNode1 == [id |-> IdA, name |-> NameTay]
BaseEdge1 == [source |-> IdA, target |-> IdC, weight |-> 2]
BaseEdge2 == [source |-> IdAB, target |-> IdA]

Song1 == [id |-> IdAB, title |-> NameTay, artistIds |-> <<IdA>>, year |-> 1989,
          credits |-> [writers |-> <<IdA, IdC>>]]
Song2 == [id |-> IdC, title |-> NameAB, artistIds |-> <<>>,
          credits |-> [producers |-> <<IdBC>>, performers |-> <<IdBC, IdA>>]]
Song3 == [id |-> IdBC, title |-> NameTay, artistIds |-> <<IdBC, IdC>>, year |-> 1989,
          credits |-> [performers |-> <<>>]]

Album1 == [id |-> IdBC, title |-> NameAB, artistIds |-> <<IdA>>, year |-> 1989,
           songIds |-> <<IdAB, IdC>>]
Album2 == [id |-> IdA, title |-> NameAB, artistIds |-> <<IdC>>]
Album3 == [id |-> IdC, title |-> NameTay, artistIds |-> <<IdC>>]

BaseNodeLists == {<<>>, <<BaseNode1>>}
BaseEdgeLists == {<<>>, <<BaseEdge1>>, <<BaseEdge2>>, <<BaseEdge1, BaseEdge2>>}
SongLists == SeqsUpTo({Song1, Song2, Song3}, MaxSongs)
AlbumLists == SeqsUpTo({Album1, Album2, Album3}, MaxAlbums)

InitIngest ==
  /\ heap = <<>>
  /\ ds = [graph |-> 0, initialized |-> FALSE]
  /\ files = <<>>
  /\ ctx = <<>>
  /\ frame = NoFrame
  /\ graph = NewGraph
  /\ last = [op |-> "new"]
  /\ ops = 0
  /\ pc = "base"
  /\ input \in [nodes : BaseNodeLists, edges : BaseEdgeLists,
                songs : SongLists, albums : AlbumLists]

IngestBase ==
  /\ pc = "base"
  /\ graph' = loadBase(input)
  /\ pc' = "songs"
  /\ last' = [op |-> "loadBase"]
  /\ UNCHANGED <<ops, input>>
  /\ UNCHANGED <<dataVars, frame>>

IngestSongs ==
  /\ pc = "songs"
  /\ graph' = addSongCreditsToGraph(graph, input)
  /\ pc' = "albums"
  /\ last' = [op |-> "addSongCreditsToGraph"]
  /\ UNCHANGED <<ops, input>>
  /\ UNCHANGED <<dataVars, frame>>

IngestAlbums ==
  /\ pc = "albums"
  /\ graph' = addAlbumsToGraph(graph, input)
  /\ pc' = "assign"
  /\ last' = [op |-> "addAlbumsToGraph"]
  /\ UNCHANGED <<ops, input>>
  /\ UNCHANGED <<dataVars, frame>>

IngestAssign ==
  /\ pc = "assign"
  /\ graph' = assignCommunities(graph)
  /\ pc' = "ready"
  /\ last' = [op |-> "assignCommunities"]
  /\ UNCHANGED <<ops, input>>
  /\ UNCHANGED <<dataVars, frame>>

NextIngest == IngestBase \/ IngestSongs \/ IngestAlbums \/ IngestAssign

SpecIngest == InitIngest /\ [][NextIngest]_vars

\* the ids the record sets mention, in ingestion order: "def" where a record
\* has the id as its own, "ref" where an edge or a list refers to it
Mentions(kind, ids) == [i \in 1..Len(ids) |-> <<kind, ids[i]>>]

RECURSIVE Flatten(_)
Flatten(seqs) == IF seqs = <<>> THEN <<>> ELSE Head(seqs) \o Flatten(Tail(seqs))

SongLists4(song) ==
  song.artistIds \o OptList(song.credits, "writers")
  \o OptList(song.credits, "producers") \o OptList(song.credits, "performers")

AlbumLists2(album) == album.artistIds \o OptList(album, "songIds")

MentionSeq(data) ==
  Flatten([i \in 1..Len(data.nodes) |-> <<<<"def", NodeKey(data.nodes[i])>>>>])
  \o Flatten([i \in 1..Len(data.edges) |->
                Mentions("ref", <<data.edges[i].source, data.edges[i].target>>)])
  \o Flatten([i \in 1..Len(data.songs) |->
                <<<<"def", data.songs[i].id>>>>
                \o Mentions("ref", SongLists4(data.songs[i]))])
  \o Flatten([i \in 1..Len(data.albums) |->
                <<<<"def", data.albums[i].id>>>>
                \o Mentions("ref", AlbumLists2(data.albums[i]))])

Referenced(data) ==
  {m[2] : m \in {n \in Range(MentionSeq(data)) : n[1] = "ref"}}

FirstMention(data, id) ==
  CHOOSE i \in 1..Len(MentionSeq(data)) :
    /\ MentionSeq(data)[i][2] = id
    /\ \A j \in 1..(i - 1) : MentionSeq(data)[j][2] # id

AbsentWhenFirstReferenced(data, id) ==
  /\ id \in Referenced(data)
  /\ MentionSeq(data)[FirstMention(data, id)][1] = "ref"

DefinedLater(data, id) ==
  \E j \in (FirstMention(data, id) + 1)..Len(MentionSeq(data)) :
    MentionSeq(data)[j] = <<"def", id>>

EdgeEndpoints(g) ==
  UNION {{g.adjacency[i][1]} \cup Range(MapKeys(g.adjacency[i][2])) :
           i \in 1..Len(g.adjacency)}

IsNode(g, id) == arrayIncludes(nodes(g), id) /\ MapHas(g.nodeData, id)

AllReferencedAreNodes ==
  \A id \in EdgeEndpoints(graph) \cup Referenced(input) : IsNode(graph, id)

\* C7 as stated: after ingestion every id that an edge, a work's lists or a
\* collection's lists refer to is a node with a record, and an id that was
\* absent when first referenced has a record whose name is the id.
C7_ReferencedIdsAreStubs ==
  pc \in {"assign", "ready"} =>
    /\ AllReferencedAreNodes
    /\ \A id \in Referenced(input) :
         AbsentWhenFirstReferenced(input, id) =>
           MapGet(graph.nodeData, id).name = id

\* C7 amended: the record of an id that was absent when first referenced has
\* the id as its name unless a work or collection record ingested later has
\* that id as its own.
C7_ReferencedIdsAreNodes ==
  pc \in {"assign", "ready"} =>
    /\ AllReferencedAreNodes
    /\ \A id \in Referenced(input) :
         (AbsentWhenFirstReferenced(input, id) /\ ~DefinedLater(input, id)) =>
           MapGet(graph.nodeData, id).name = id

C7_Witness ==
  /\ pc = "ready"
  /\ \E id \in Referenced(input) :
       /\ AbsentWhenFirstReferenced(input, id)
       /\ ~DefinedLater(input, id)
       /\ IsNode(graph, id)
       /\ MapGet(graph.nodeData, id).name = id
  /\ \E id \in Referenced(input) :
       /\ AbsentWhenFirstReferenced(input, id)
       /\ DefinedLater(input, id)
       /\ MapGet(graph.nodeData, id).name # id

(***************************************************************************)
(* Queries on the fused graph: SpecServe.  A request names node types by   *)
(* the enum names of the schema; the resolver receives the values the      *)
(* resolver map NodeType gives them.                                       *)
(***************************************************************************)
\* the queries "", " ", "tay" and "A"
QueryEmpty == EmptyStr
QuerySpace == <<32>>
QueryTay == <<116, 97, 121>>
QueryUpperA == <<ChUpperA>>
Queries == {QueryEmpty, QuerySpace, QueryTay, QueryUpperA}

KindFilters == {<<>>, <<"ARTIST">>, <<"SONG", "ALBUM">>}
Limits == {-1, 0, 1}

SearchRequests ==
  {[query |-> q] : q \in Queries}
  \cup {[query |-> q, nodeTypes |-> f] : q \in Queries, f \in KindFilters}
  \cup {[query |-> q, limit |-> l] : q \in Queries, l \in Limits}
  \cup {[query |-> q, nodeTypes |-> f, limit |-> l] :
          q \in Queries, f \in KindFilters, l \in Limits}

\* the arguments the resolver receives for a request
ResolverArgs(request) ==
  IF "nodeTypes" \notin DOMAIN request THEN request
  ELSE [request EXCEPT !.nodeTypes =
          [i \in 1..Len(request.nodeTypes) |-> NodeType[request.nodeTypes[i]]]]

\* a request is resolved (pc "ready" to "resolved") and then answered
Search(request) ==
  /\ pc = "ready"
  /\ last' = [op |-> "search", request |-> request,
              result |-> search(graph, ResolverArgs(request))]
  /\ pc' = "resolved"
  /\ UNCHANGED <<graph, ops, input>>
  /\ UNCHANGED <<dataVars, frame>>

\* the arguments {} of a request
NoArgs == [field \in {} |-> field]

GraphRequests == {NoArgs} \cup {[nodeTypes |-> f] : f \in KindFilters}

NeighborsRequests ==
  {[id |-> i] : i \in Ids} \cup {[id |-> i, nodeTypes |-> <<"ARTIST">>] : i \in Ids}

QueryGraph(request) ==
  /\ pc = "ready"
  /\ last' = [op |-> "graph", request |-> request,
              result |-> resolveGraph(graph, ResolverArgs(request))]
  /\ pc' = "resolved"
  /\ UNCHANGED <<graph, ops, input>>
  /\ UNCHANGED <<dataVars, frame>>

QueryNode(id) ==
  /\ pc = "ready"
  /\ last' = [op |-> "node", id |-> id, result |-> resolveNode(graph, [id |-> id])]
  /\ pc' = "resolved"
  /\ UNCHANGED <<graph, ops, input>>
  /\ UNCHANGED <<dataVars, frame>>

\* Query.neighbors creating the entry of an unknown id
QueryNeighborsCreating(request) ==
  /\ pc = "ready"
  /\ last' = [op |-> "neighbors", request |-> request,
              result |-> resolveNeighbors(graph, ResolverArgs(request))]
  /\ pc' = "resolved"
  /\ graph' = IF MapHas(graph.adjacency, request.id) THEN graph
              ELSE addNode(graph, StubNode(request.id))
  /\ UNCHANGED <<ops, input>>
  /\ UNCHANGED <<dataVars, frame>>

QueryNeighbors(request) ==
  /\ pc = "ready"
  /\ last' = [op |-> "neighbors", request |-> request,
              result |-> resolveNeighbors(graph, ResolverArgs(request))]
  /\ pc' = "resolved"
  /\ UNCHANGED <<graph, ops, input>>
  /\ UNCHANGED <<dataVars, frame>>

QueryShortestPath(from, to) ==
  /\ pc = "ready"
  /\ last' = [op |-> "shortestPath", from |-> from, to |-> to,
              result |-> resolveShortestPath(graph, [from |-> from, to |-> to])]
  /\ pc' = "resolved"
  /\ UNCHANGED <<graph, ops, input>>
  /\ UNCHANGED <<dataVars, frame>>

QueryCommunity(id) ==
  /\ pc = "ready"
  /\ last' = [op |-> "community", id |-> id,
              result |-> resolveCommunity(graph, [id |-> id])]
  /\ pc' = "resolved"
  /\ UNCHANGED <<graph, ops, input>>
  /\ UNCHANGED <<dataVars, frame>>

QueryCommunities ==
  /\ pc = "ready"
  /\ last' = [op |-> "communities", result |-> resolveCommunities(graph)]
  /\ pc' = "resolved"
  /\ UNCHANGED <<graph, ops, input>>
  /\ UNCHANGED <<dataVars, frame>>

\* the response is sent and the server takes the next request
Respond ==
  /\ pc = "resolved"
  /\ pc' = "ready"
  /\ last' = [op |-> "respond"]
  /\ UNCHANGED <<graph, ops, input>>
  /\ UNCHANGED <<dataVars, frame>>

NextServe ==
  \/ NextIngest
  \/ \E request \in SearchRequests : Search(request)
  \/ \E request \in GraphRequests : QueryGraph(request)
  \/ \E id \in Ids : QueryNode(id)
  \/ \E request \in NeighborsRequests : QueryNeighbors(request)
  \/ \E from \in Ids, to \in Ids : QueryShortestPath(from, to)
  \/ \E id \in Ids : QueryCommunity(id)
  \/ QueryCommunities
  \/ Respond

SpecServe == InitIngest /\ [][NextServe]_vars

\* the query with leading and trailing spaces removed
RECURSIVE TrimLeft(_)
TrimLeft(str) ==
  IF str # <<>> /\ <<Head(str)>> = QuerySpace THEN TrimLeft(Tail(str)) ELSE str

Trim(str) == Reverse(TrimLeft(Reverse(TrimLeft(str))))

\* C9: search with an empty or whitespace-only query returns no node and
\* count 0, for every graph, kind filter and limit.
C9_EmptyQueryMatchesNothing ==
  (last.op = "search" /\ Trim(last.request.query) = EmptyStr) =>
    /\ last.result.nodes = <<>>
    /\ last.result.count = 0

SameLetter(c, d) ==
  \/ c = d
  \/ c >= ChUpperA /\ c <= ChUpperZ /\ d = c + CaseOffset
  \/ d >= ChUpperA /\ d <= ChUpperZ /\ c = d + CaseOffset

\* q occurs in name, letter case ignored
ContainsIgnoringCase(name, q) ==
  \E i \in 0..(Len(name) - Len(q)) :
    \A j \in 1..Len(q) : SameLetter(name[i + j], q[j])

KindPasses(g, id, request) ==
  \/ "nodeTypes" \notin DOMAIN request
  \/ request.nodeTypes = <<>>
  \/ toNodeTypeEnum(nodeDataOrStub(g, id)) \in Range(request.nodeTypes)

ExpectedMatches(g, request) ==
  SelectSeq(nodes(g),
            LAMBDA id : /\ ContainsIgnoringCase(nodeDataOrStub(g, id).name, request.query)
                        /\ KindPasses(g, id, request))

ExpectedIds(g, request) ==
  LET all == ExpectedMatches(g, request) IN
  IF "limit" \in DOMAIN request /\ request.limit > 0 /\ request.limit < Len(all)
  THEN SubSeq(all, 1, request.limit) ELSE all

\* C10: for a query that is not empty, search returns exactly the nodes
\* whose name contains the query, letter case ignored, and whose kind passes
\* the filter, in nodes() order, cut to the first limit of them for a
\* positive limit, and count is the number of nodes returned.
C10_SearchReturnsMatches ==
  (last.op = "search" /\ Trim(last.request.query) # EmptyStr) =>
    /\ [i \in 1..Len(last.result.nodes) |-> last.result.nodes[i].id]
         = ExpectedIds(graph, last.request)
    /\ last.result.count = Len(last.result.nodes)

(***************************************************************************)
(* Degree centrality.                                                      *)
(***************************************************************************)
\* the graph is one node without any edge
SingleIsolatedNode(g) == Len(g.adjacency) = 1 /\ g.adjacency[1][2] = <<>>

\* the centrality value v is the number n: v is <<degree, d>> for
\* degree * (1 / d), which is exactly degree when d is 1
CentralityIs(v, n) == v[2] = 1 /\ v[1] = n

\* C11 as stated: degreeCentrality(true) on a graph of one isolated node
\* yields 1 for that node.
C11_IsolatedNodeCentralityOne ==
  (last.op = "degreeCentrality" /\ last.normalize /\ SingleIsolatedNode(graph)) =>
    /\ Len(last.result) = 1
    /\ CentralityIs(last.result[1][2], 1)

\* C11 amended: degreeCentrality(true) on a graph of one isolated node
\* yields 0 for that node, its degree 0 times the scale 1.
C11_IsolatedNodeCentralityZero ==
  (last.op = "degreeCentrality" /\ last.normalize /\ SingleIsolatedNode(graph)) =>
    /\ Len(last.result) = 1
    /\ last.result[1][1] = graph.adjacency[1][1]
    /\ CentralityIs(last.result[1][2], 0)

C11_Witness ==
  /\ last.op = "degreeCentrality"
  /\ last.normalize
  /\ SingleIsolatedNode(graph)
  /\ last.result = <<<<graph.adjacency[1][1], <<0, 1>>>>>>

(***************************************************************************)
(* Ingestion of documents that may be malformed.  A for-of loop over an    *)
(* absent list and a property read of an absent object throw a TypeError;  *)
(* the result of a function that may throw is the graph as it stands when  *)
(* the function returns or throws, with threw telling which.               *)
(***************************************************************************)
lacks(obj, field) == field \notin DOMAIN obj

Returned(g) == [graph |-> g, threw |-> FALSE]
Thrown(g) == [graph |-> g, threw |-> TRUE]

\* the first loop of initialize(): addNode throws on a node without an id
RECURSIVE loadBaseNodesOrThrow(_, _, _)
loadBaseNodesOrThrow(g, nodeList, i) ==
  IF i > Len(nodeList) THEN Returned(g)
  ELSE LET node == ObjSpread(nodeList[i], [nodeType |-> "artist"])
       IN IF addNodeThrows(node) THEN Thrown(g)
          ELSE loadBaseNodesOrThrow(addNode(g, node), nodeList, i + 1)

\* the base relations: new Graph() and the two loops over artistsData
loadBaseOrThrow(data) ==
  IF lacks(data, "nodes") THEN Thrown(NewGraph)
  ELSE Only({IF loaded.threw THEN loaded
              ELSE IF lacks(data, "edges") THEN Thrown(loaded.graph)
              ELSE Returned(loadBaseEdges(loaded.graph, data.edges, 1)) :
              loaded \in {loadBaseNodesOrThrow(NewGraph, data.nodes, 1)}})

\* a song record on which the loop body throws: after the song node is
\* added, the loop over song.artistIds or the read of song.credits.writers
songThrows(song) == lacks(song, "artistIds") \/ lacks(song, "credits")

RECURSIVE songsLoopOrThrow(_, _, _)
songsLoopOrThrow(g, songs, i) ==
  IF i > Len(songs) THEN Returned(g)
  ELSE IF songThrows(songs[i]) THEN Thrown(addNode(g, songNode(songs[i])))
  ELSE songsLoopOrThrow(addSongCredit(g, songs[i]), songs, i + 1)

addSongCreditsToGraphOrThrow(g, songCredits) ==
  IF lacks(songCredits, "songs") THEN Thrown(g)
  ELSE Only({IF looped.threw THEN looped
              ELSE Returned(assignCommunities(looped.graph)) :
              looped \in {songsLoopOrThrow(g, songCredits.songs, 1)}})

\* an album record on which the loop body throws: after the album node is
\* added, the loop over album.artistIds
albumThrows(album) == lacks(album, "artistIds")

RECURSIVE albumsLoopOrThrow(_, _, _)
albumsLoopOrThrow(g, albums, i) ==
  IF i > Len(albums) THEN Returned(g)
  ELSE IF albumThrows(albums[i]) THEN Thrown(addNode(g, albumNode(albums[i])))
  ELSE albumsLoopOrThrow(addAlbum(g, albums[i]), albums, i + 1)

addAlbumsToGraphOrThrow(g, albumsData) ==
  IF lacks(albumsData, "albums") THEN Thrown(g)
  ELSE Only({IF looped.threw THEN looped
              ELSE Returned(assignCommunities(looped.graph)) :
              looped \in {albumsLoopOrThrow(g, albumsData.albums, 1)}})

(***************************************************************************)
(* The data source.  A file is [exists, parses] and, when its text         *)
(* parses, value: the parsed document.  heap holds the Graph instances in  *)
(* the order new Graph() made them, each with built: whether initialize()  *)
(* reached the end of its try block on it; ds.graph is 0 for null or the   *)
(* index of an instance.  initialize() and reload() contain no await, so   *)
(* each call runs to completion as one step.                               *)
(***************************************************************************)
\* the ingestion called inside the try block of a source
ingestSource(name, g, doc) ==
  IF name = "songs" THEN addSongCreditsToGraphOrThrow(g, doc)
  ELSE addAlbumsToGraphOrThrow(g, doc)

\* the try block with a catch that drops the graph on a parse error
optionalLayerDiscarding(g, file, name) ==
  IF ~file.exists THEN g
  ELSE IF ~file.parses THEN NewGraph
  ELSE ingestSource(name, g, file.value).graph

\* a try block around an optional source: a missing file is skipped, a
\* throw of JSON.parse or of the ingestion is caught
optionalLayer(g, file, name) ==
  IF ~file.exists THEN g
  ELSE IF ~file.parses THEN g
  ELSE ingestSource(name, g, file.value).graph

\* the optional layers on the base graph, one after the other
optionalLayers(g, fs) ==
  Only({optionalLayer(withSongs, fs.albums, "albums") :
          withSongs \in {optionalLayer(g, fs.songs, "songs")}})

\* the try block of initialize() without the final assignCommunities
initializeBodyUnassigned(fs) ==
  IF ~fs.artists.exists \/ ~fs.artists.parses THEN [created |-> FALSE, threw |-> TRUE]
  ELSE Only({IF base.threw
             THEN [created |-> TRUE, threw |-> TRUE, graph |-> base.graph]
             ELSE [created |-> TRUE, threw |-> FALSE,
                   graph |-> optionalLayers(base.graph, fs)] :
             base \in {loadBaseOrThrow(fs.artists.value)}})

\* the try block of initialize(): created tells whether new Graph() was
\* assigned to this.graph, threw whether the block threw
initializeBody(fs) ==
  IF ~fs.artists.exists \/ ~fs.artists.parses THEN [created |-> FALSE, threw |-> TRUE]
  ELSE Only({IF base.threw
             THEN [created |-> TRUE, threw |-> TRUE, graph |-> base.graph]
             ELSE [created |-> TRUE, threw |-> FALSE,
                   graph |-> Only({assignCommunities(layered) :
                                     layered \in {optionalLayers(base.graph, fs)}})] :
             base \in {loadBaseOrThrow(fs.artists.value)}})

\* new Graph() writing over the latest instance
newGraphReused(h) == IF h = <<>> THEN 1 ELSE Len(h)

\* new Graph(): the reference of a fresh instance
newGraph(h) == Len(h) + 1

StoreAt(h, ref, instance) ==
  IF ref > Len(h) THEN Append(h, instance) ELSE [h EXCEPT ![ref] = instance]

NullDataSource == [graph |-> 0, initialized |-> FALSE]

\* initialize() on the data source d, the heap h and the files fs
initialize(d, h, fs) ==
  IF d.graph # 0 /\ d.initialized
  THEN [ds |-> d, heap |-> h, threw |-> FALSE]
  ELSE Only({IF ~run.created THEN [ds |-> d, heap |-> h, threw |-> TRUE]
              ELSE [ds   |-> [graph |-> newGraph(h),
                              initialized |-> IF run.threw THEN d.initialized ELSE TRUE],
                    heap |-> StoreAt(h, newGraph(h),
                                     [graph |-> run.graph, built |-> ~run.threw]),
                    threw |-> run.threw] :
              run \in {initializeBody(fs)}})

reload(d, h, fs) == initialize(NullDataSource, h, fs)

\* getGraph() throws unless a graph is there
getGraphThrowsOnNull(d) == d.graph = 0

getGraphThrows(d) == d.graph = 0 \/ ~d.initialized

isInitialized(d) == d.initialized /\ d.graph # 0

(***************************************************************************)
(* SpecData: the data source over files that are removed and put back,     *)
(* with request contexts taking the graph from getGraph().                 *)
(***************************************************************************)
ParsedFile(doc) == [exists |-> TRUE, parses |-> TRUE, value |-> doc]
GarbageFile == [exists |-> TRUE, parses |-> FALSE]

\* a base node whose id is the empty string
BadNode == [id |-> EmptyStr, name |-> NameTay]
\* a song without artistIds, a song without credits, an album without artistIds
BadSong1 == [id |-> IdC, title |-> NameAB, credits |-> [writers |-> <<IdA>>]]
BadSong2 == [id |-> IdBC, title |-> NameTay, artistIds |-> <<IdA>>]
BadAlbum == [id |-> IdAB, title |-> NameTay, songIds |-> <<IdC>>]

ArtistsFiles ==
  {GarbageFile,
   ParsedFile([edges |-> <<>>]),
   ParsedFile([nodes |-> <<BaseNode1, BadNode>>, edges |-> <<>>]),
   ParsedFile([nodes |-> <<BaseNode1>>]),
   ParsedFile([nodes |-> <<BaseNode1>>, edges |-> <<BaseEdge1>>])}

SongsFiles ==
  {GarbageFile,
   ParsedFile([title |-> NameTay]),
   ParsedFile([songs |-> <<>>]),
   ParsedFile([songs |-> <<Song1>>]),
   ParsedFile([songs |-> <<Song1, BadSong1>>]),
   ParsedFile([songs |-> <<BadSong2, Song2>>])}

AlbumsFiles ==
  {GarbageFile,
   ParsedFile([title |-> NameTay]),
   ParsedFile([albums |-> <<>>]),
   ParsedFile([albums |-> <<Album1>>]),
   ParsedFile([albums |-> <<Album2, BadAlbum>>])}

FileNames == {"artists", "songs", "albums"}

InitData ==
  /\ graph = NewGraph
  /\ ops = 0
  /\ pc = "data"
  /\ input = <<>>
  /\ last = [op |-> "new"]
  /\ heap = <<>>
  /\ ds = NullDataSource
  /\ files \in [artists : ArtistsFiles, songs : SongsFiles, albums : AlbumsFiles]
  /\ ctx = <<>>
  /\ frame = NoFrame

\* a file is removed, or put back with the text it had
TouchFile(name) ==
  /\ pc = "data"
  /\ files' = [files EXCEPT ![name].exists = ~@]
  /\ last' = [op |-> "touch", name |-> name]
  /\ UNCHANGED <<heap, ds, ctx>>
  /\ UNCHANGED <<storeVars, frame>>

Initialize ==
  /\ pc = "data"
  /\ Len(heap) < MaxBuilds
  /\ \E call \in {initialize(ds, heap, files)} :
        /\ ds' = call.ds
        /\ heap' = call.heap
        /\ last' = [op |-> "initialize", threw |-> call.threw]
  /\ UNCHANGED <<files, ctx>>
  /\ UNCHANGED <<storeVars, frame>>

Reload ==
  /\ pc = "data"
  /\ Len(heap) < MaxBuilds
  /\ \E call \in {reload(ds, heap, files)} :
        /\ ds' = call.ds
        /\ heap' = call.heap
        /\ last' = [op |-> "reload", threw |-> call.threw]
  /\ UNCHANGED <<files, ctx>>
  /\ UNCHANGED <<storeVars, frame>>

\* the context of a request: graph: dataSource.getGraph(); seen is the
\* instance as it was when the reader took it
GetGraph ==
  /\ pc = "data"
  /\ IF getGraphThrows(ds)
     THEN /\ last' = [op |-> "getGraph", threw |-> TRUE]
          /\ UNCHANGED ctx
     ELSE /\ Len(ctx) < MaxReaders
          /\ ctx' = Append(ctx, [ref |-> ds.graph, seen |-> heap[ds.graph].graph])
          /\ last' = [op |-> "getGraph", threw |-> FALSE, ref |-> ds.graph]
  /\ UNCHANGED <<heap, ds, files>>
  /\ UNCHANGED <<storeVars, frame>>

IsInitialized ==
  /\ pc = "data"
  /\ last' = [op |-> "isInitialized", result |-> isInitialized(ds)]
  /\ UNCHANGED <<dataVars, frame>>
  /\ UNCHANGED <<storeVars, frame>>

NextData ==
  \/ \E name \in FileNames : TouchFile(name)
  \/ Initialize
  \/ Reload
  \/ GetGraph
  \/ IsInitialized

SpecData == InitData /\ [][NextData]_vars

(***************************************************************************)
(* Failure policy of initialize().                                         *)
(***************************************************************************)
\* the step is a call of initialize() or reload() that runs the try block
BuildStep ==
  \/ last'.op = "reload"
  \/ last'.op = "initialize" /\ ~isInitialized(ds)

Published(d, h) == h[d.graph].graph

\* a base document without its node list or its edge list, or with a node
\* that has no id
BaseMalformed(doc) ==
  \/ lacks(doc, "nodes")
  \/ lacks(doc, "edges")
  \/ \E i \in 1..Len(doc.nodes) : doc.nodes[i].id = EmptyStr

BaseFails(fs) ==
  \/ ~fs.artists.exists
  \/ ~fs.artists.parses
  \/ BaseMalformed(fs.artists.value)

\* C12: when the base source is missing or malformed, initialize() throws
\* and isInitialized() stays false; while isInitialized() is false
\* getGraph() throws; isInitialized() becomes true only by an initialize()
\* that does not throw.
C12_BaseFailureIsFatal ==
  [][/\ (BuildStep /\ BaseFails(files)) =>
          (last'.threw /\ ~isInitialized(ds') /\ getGraphThrows(ds'))
     /\ (last'.op = "getGraph" /\ ~isInitialized(ds)) => last'.threw
     /\ (~isInitialized(ds) /\ isInitialized(ds')) =>
          (last'.op \in {"initialize", "reload"} /\ ~last'.threw /\ ~BaseFails(files))
    ]_vars

\* a failed initialize() left a Graph in this.graph, and getGraph() threw
C12_Witness ==
  /\ last.op = "getGraph"
  /\ last.threw
  /\ ds.graph # 0
  /\ BaseFails(files)

\* the store invariants of a graph
SymmetricAdjacency(g) ==
  \A a \in NodeSet(g), b \in EdgeEndpoints(g) :
    /\ Adjacent(g, a, b) => Adjacent(g, b, a)
    /\ Adjacent(g, a, b) => WeightOf(g, a, b) = WeightOf(g, b, a)

EndpointsAreNodes(g) ==
  \A id \in EdgeEndpoints(g) : HasNode(g, id) /\ MapHas(g.nodeData, id)

LabelOf(g, id) == MapGet(g.nodeData, id).communityId

LabelledByComponent(g) ==
  /\ \A a \in NodeSet(g) :
       /\ MapHas(g.nodeData, a)
       /\ "communityId" \in DOMAIN MapGet(g.nodeData, a)
       /\ \E k \in 1..Cardinality(NodeSet(g)) : LabelOf(g, a) = CommunityLabel(k - 1)
  /\ \A a \in NodeSet(g), b \in NodeSet(g) :
       (LabelOf(g, a) = LabelOf(g, b)) <=> Connected(g, a, b)

StoreInvariants(g) ==
  SymmetricAdjacency(g) /\ EndpointsAreNodes(g) /\ LabelledByComponent(g)

\* an optional document with a record that lacks a required list
RecordsMalformed(doc, list, required) ==
  /\ ~lacks(doc, list)
  /\ \E i \in 1..Len(doc[list]) : \E field \in required : lacks(doc[list][i], field)

\* the source cannot be read as a list of records at all
FailsBeforeRecords(file, list) ==
  ~file.exists \/ ~file.parses \/ lacks(file.value, list)

ListOf == [songs |-> "songs", albums |-> "albums"]
RequiredOf == [songs |-> {"artistIds", "credits"}, albums |-> {"artistIds"}]

SourceFails(fs, name) ==
  \/ FailsBeforeRecords(fs[name], ListOf[name])
  \/ RecordsMalformed(fs[name].value, ListOf[name], RequiredOf[name])

\* C13: when the base source is sound and the song credits or the albums
\* are missing or malformed, initialize() returns normally and the graph
\* it publishes has symmetric adjacency, only nodes as edge endpoints, and
\* on every node the community label of its connected component.
C13_OptionalFailureStillPublishes ==
  [][(/\ BuildStep
      /\ ~BaseFails(files)
      /\ \E name \in {"songs", "albums"} : SourceFails(files, name)) =>
       /\ ~last'.threw
       /\ isInitialized(ds')
       /\ ~getGraphThrows(ds')
       /\ StoreInvariants(Published(ds', heap'))
    ]_vars

\* the song credits failed at their second record and the albums are
\* missing: the published graph holds the first song and is labelled
C13_Witness ==
  /\ last.op \in {"initialize", "reload"}
  /\ ~last.threw
  /\ isInitialized(ds)
  /\ files.songs = ParsedFile([songs |-> <<Song1, BadSong1>>])
  /\ ~files.albums.exists
  /\ HasNode(Published(ds, heap), Song1.id)
  /\ StoreInvariants(Published(ds, heap))

\* the source holding no record at all
EmptySource(name) == ParsedFile([field \in {ListOf[name]} |-> <<>>])

\* the graph initialize() builds from the other sources alone
BuiltWithout(fs, name) ==
  initializeBody([fs EXCEPT ![name] = EmptySource(name)]).graph

C15_ReadersSeeCompleteGraphs ==
  \A i \in 1..Len(ctx) :
    LET instance == heap[ctx[i].ref]
    IN /\ instance.built
       /\ StoreInvariants(instance.graph)
       /\ instance.graph = ctx[i].seen

\* a reader holds the instance that a later reload() replaced by a
\* different graph
C15_Witness ==
  /\ last.op = "reload"
  /\ ~last.threw
  /\ \E i \in 1..Len(ctx) :
       /\ ctx[i].ref # ds.graph
       /\ ctx[i].seen # Published(ds, heap)
       /\ heap[ctx[i].ref].graph = ctx[i].seen

\* C16: a reload() called while getGraph() returns a graph leaves
\* getGraph() returning a graph, also when its rebuild fails.
C16_ReloadKeepsGraphPublished ==
  [][(last'.op = "reload" /\ ~getGraphThrows(ds)) => ~getGraphThrows(ds')]_vars

(***************************************************************************)
(* The query resolvers.                                                    *)
(***************************************************************************)
QueryOps ==
  {"graph", "node", "neighbors", "shortestPath", "search", "community",
   "communities", "degreeCentrality", "connectedComponents"}

\* C17: a step that resolves a query (graph, node, neighbors, shortestPath,
\* search, community, communities) leaves the store as it was: nodes,
\* records with their community labels, adjacency, weights and orders.
C17_QueriesDoNotMutate ==
  [][last'.op \in QueryOps => graph' = graph]_vars

\* neighbors of an id that is no node, and community over a graph of
\* several nodes, were resolved
C17_Witness ==
  \/ /\ last.op = "neighbors"
     /\ ~HasNode(graph, last.request.id)
     /\ last.result = <<>>
     /\ Len(nodes(graph)) >= 2
  \/ /\ last.op = "community"
     /\ ~last.result.isNull
     /\ last.result.value.nodeCount >= 2

IdsOf(nodeList) == [i \in 1..Len(nodeList) |-> nodeList[i].id]

\* the nodes that pass the kind filter of a request
KeptNodes(g, request) == {id \in NodeSet(g) : KindPasses(g, id, request)}

ComponentSets(g) == {{b \in NodeSet(g) : Connected(g, a, b)} : a \in NodeSet(g)}

\* C18: graph(kindFilter) returns the nodes whose kind passes the filter,
\* in nodes() order, the edges of edges() with both endpoints among them,
\* and the components cut down to them, the empty ones left out.
C18_GraphReturnsFilteredView ==
  last.op = "graph" =>
    LET kept == KeptNodes(graph, last.request)
        result == last.result
    IN /\ IdsOf(result.nodes) = SelectSeq(nodes(graph), LAMBDA id : id \in kept)
       /\ [i \in 1..Len(result.edges) |->
             <<result.edges[i].source, result.edges[i].target>>]
            = [i \in 1..Len(SelectSeq(edges(graph),
                                      LAMBDA e : e[1] \in kept /\ e[2] \in kept)) |->
                 LET e == SelectSeq(edges(graph),
                                    LAMBDA f : f[1] \in kept /\ f[2] \in kept)[i]
                 IN <<e[1], e[2]>>]
       /\ {Range(IdsOf(result.communities[k].nodes)) :
             k \in 1..Len(result.communities)}
            = {comp \cap kept : comp \in ComponentSets(graph)} \ {{}}
       /\ \A k \in 1..Len(result.communities) :
            /\ result.communities[k].nodeCount = Len(result.communities[k].nodes)
            /\ Cardinality(Range(IdsOf(result.communities[k].nodes)))
                 = Len(result.communities[k].nodes)
       /\ result.nodeCount = Len(result.nodes)
       /\ result.edgeCount = Len(result.edges)

SamePair(a, b, c, d) == (a = c /\ b = d) \/ (a = d /\ b = c)

\* the relation labels that ingestion of the documents chose for the edge
\* between a and b
LabelsChosen(data, a, b) ==
  {IF "relation" \in DOMAIN data.edges[i] THEN data.edges[i].relation ELSE "connected" :
     i \in {j \in 1..Len(data.edges) :
              SamePair(a, b, data.edges[j].source, data.edges[j].target)}}
  \cup UNION {{songRelation(data.songs[i], artistId) :
                  artistId \in {x \in Range(allCreditedArtists(data.songs[i])) :
                                  SamePair(a, b, data.songs[i].id, x)}} :
                i \in 1..Len(data.songs)}
  \cup {"released by" :
          i \in {j \in 1..Len(data.albums) :
                   \E x \in Range(data.albums[j].artistIds) :
                     SamePair(a, b, data.albums[j].id, x)}}
  \cup {"contains" :
          i \in {j \in 1..Len(data.albums) :
                   \E x \in Range(OptList(data.albums[j], "songIds")) :
                     SamePair(a, b, data.albums[j].id, x)}}

\* C19: graph() reports for each edge a relation label that ingestion
\* chose for that edge.
C19_GraphReportsRelation ==
  last.op = "graph" =>
    \A i \in 1..Len(last.result.edges) :
      LET e == last.result.edges[i]
      IN e.relation \in LabelsChosen(input, e.source, e.target)

(***************************************************************************)
(* Stubs of song credits.                                                  *)
(***************************************************************************)
\* the graph before the k-th song of the credits is ingested, and after
GraphBeforeSong(data, k) == songsLoop(loadBase(data), SubSeq(data.songs, 1, k - 1), 1)
GraphAfterSong(data, k) == addSongCredit(GraphBeforeSong(data, k), data.songs[k])

\* the ids the four lists of a song mention
Credited(song) ==
  Range(song.artistIds) \cup Range(OptList(song.credits, "writers"))
    \cup Range(OptList(song.credits, "producers"))
    \cup Range(OptList(song.credits, "performers"))

\* the number of lists of the song that mention the id
ListsMentioning(song, id) ==
  Cardinality({list \in {"writers", "producers", "performers"} :
                 id \in Range(OptList(song.credits, list))})
    + (IF id \in Range(song.artistIds) THEN 1 ELSE 0)

Occurrences(seq, x) == Cardinality({i \in 1..Len(seq) : seq[i] = x})

StubRecord(id) == [id |-> id, name |-> id, nodeType |-> "artist"]

\* what ingesting the k-th song does for the ids it mentions; own tells
\* whether the song's own id is among the ids the statement covers
StubPerAbsentId(data, k, own) ==
  LET song == data.songs[k]
      before == GraphBeforeSong(data, k)
      after == GraphAfterSong(data, k)
  IN /\ \A id \in Credited(song) :
          /\ Occurrences(nodes(after), id) = 1
          /\ Occurrences(MapKeys(after.nodeData), id) = 1
          /\ (~MapHas(before.nodeData, id) /\ (own \/ id # song.id)) =>
               MapGet(after.nodeData, id) = StubRecord(id)
          /\ (MapHas(before.nodeData, id) /\ id # song.id) =>
               MapGet(after.nodeData, id) = MapGet(before.nodeData, id)
     /\ Len(nodes(after)) =
          Len(nodes(before))
            + Cardinality((Credited(song) \cup {song.id}) \ NodeSet(before))

\* C20 as stated: ingesting a song creates, for every id it mentions that
\* the graph did not hold, exactly one node whose id and name are that id
\* and whose kind is artist, and replaces no record of an id it mentions.
C20_OneStubPerAbsentId ==
  pc = "albums" =>
    /\ input.songs # <<>> =>
         graph = assignCommunities(GraphAfterSong(input, Len(input.songs)))
    /\ \A k \in 1..Len(input.songs) : StubPerAbsentId(input, k, TRUE)

\* C20 amended: the same for every mentioned id other than the song's own
\* id; the song's own id carries the song's record.
C20_OneStubPerAbsentOtherId ==
  pc = "albums" =>
    /\ input.songs # <<>> =>
         graph = assignCommunities(GraphAfterSong(input, Len(input.songs)))
    /\ \A k \in 1..Len(input.songs) :
         /\ StubPerAbsentId(input, k, FALSE)
         /\ MapGet(GraphAfterSong(input, k).nodeData, input.songs[k].id).nodeType = "song"

\* an id absent from the graph is mentioned by two lists of one song and by
\* a later song, and is one artist stub in the graph
C20_Witness ==
  /\ pc = "albums"
  /\ \E k \in 1..Len(input.songs) : \E id \in Credited(input.songs[k]) :
       /\ ~MapHas(GraphBeforeSong(input, k).nodeData, id)
       /\ id # input.songs[k].id
       /\ ListsMentioning(input.songs[k], id) >= 2
       /\ \E j \in (k + 1)..Len(input.songs) :
            id \in Credited(input.songs[j]) /\ id # input.songs[j].id
       /\ Occurrences(nodes(graph), id) = 1
       /\ MapGet(graph.nodeData, id).name = id
       /\ MapGet(graph.nodeData, id).nodeType = "artist"

(***************************************************************************)
(* A loaded graph under further calls: SpecMerge.  input is the document   *)
(* loadGraphFromJson received; the store starts as the graph it returned,  *)
(* every node labelled, and the mutating calls follow.                     *)
(***************************************************************************)
loadGraphFromJson(data) == assignCommunities(loadBase(data))

BaseEdge3 == [source |-> IdC, target |-> IdBC]

MergeDocs ==
  [nodes : {<<>>, <<BaseNode1, [id |-> IdC, name |-> NameAB]>>},
   edges : {<<>>, <<BaseEdge2>>, <<BaseEdge2, BaseEdge3>>}]

InitMerge ==
  /\ heap = <<>>
  /\ ds = [graph |-> 0, initialized |-> FALSE]
  /\ files = <<>>
  /\ ctx = <<>>
  /\ frame = NoFrame
  /\ input \in MergeDocs
  /\ graph = loadGraphFromJson(input)
  /\ last = [op |-> "loadGraphFromJson"]
  /\ ops = 0
  /\ pc = "store"

NextMerge ==
  \/ \E i \in Ids : AddNode(StubNode(i))
  \/ \E a \in Ids, b \in Ids : AddEdge(a, b, DefaultWeight)
  \/ AssignCommunities

SpecMerge == InitMerge /\ [][NextMerge]_vars

\* the nodes of the component of a in g
ComponentOf(g, a) == {x \in NodeSet(g) : Connected(g, a, x)}

\* a and b were in different components of the loaded graph, with different
\* labels, and are joined by an edge now
JoinedSince(g0, g, a, b) ==
  /\ ~Connected(g0, a, b)
  /\ LabelOf(g0, a) # LabelOf(g0, b)
  /\ Adjacent(g, a, b)

\* C21: when an edge has been added between two nodes of different
\* components (so of different labels), then after the next
\* assignCommunities() the two nodes and all nodes of both former components
\* carry one label.
C21_MergedComponentsShareLabel ==
  last.op = "assignCommunities" =>
    \A a \in NodeSet(loadGraphFromJson(input)), b \in NodeSet(loadGraphFromJson(input)) :
      JoinedSince(loadGraphFromJson(input), graph, a, b) =>
        \A x \in ComponentOf(loadGraphFromJson(input), a)
                 \cup ComponentOf(loadGraphFromJson(input), b) :
          /\ MapHas(graph.nodeData, x)
          /\ "communityId" \in DOMAIN MapGet(graph.nodeData, x)
          /\ LabelOf(graph, x) = LabelOf(graph, a)

\* two components of three nodes in all were joined by an edge and relabelled
C21_Witness ==
  /\ last.op = "assignCommunities"
  /\ \E a \in NodeSet(loadGraphFromJson(input)), b \in NodeSet(loadGraphFromJson(input)) :
       /\ JoinedSince(loadGraphFromJson(input), graph, a, b)
       /\ Cardinality(ComponentOf(loadGraphFromJson(input), a)
                      \cup ComponentOf(loadGraphFromJson(input), b)) >= 3
       /\ \A x \in ComponentOf(loadGraphFromJson(input), a)
                   \cup ComponentOf(loadGraphFromJson(input), b) :
            LabelOf(graph, x) = LabelOf(graph, b)

\* the ids of the nodes that carry the label
LabelGroup(g, label) == {x \in NodeSet(g) : LabelOf(g, x) = label}

\* a community entry lists each node of one label group once, with that
\* label as its id and as the label of every node object
IsLabelGroupEntry(g, entry) ==
  /\ Range(IdsOf(entry.nodes)) = LabelGroup(g, entry.id)
  /\ Len(entry.nodes) = Cardinality(LabelGroup(g, entry.id))
  /\ entry.nodeCount = Len(entry.nodes)
  /\ \A i \in 1..Len(entry.nodes) :
       /\ LabelOf(g, entry.nodes[i].id) = entry.id
       /\ entry.nodes[i].communityId = entry.id

\* C22: on the fully built graph communities() has one entry per connected
\* component, the entry with id Ck lists exactly the nodes labelled Ck, and
\* community(id) is the entry of communities() that lists id, under the
\* label of id, for a known id and none for an unknown id.
C22_CommunitiesGroupByLabel ==
  /\ last.op = "communities" =>
       /\ Len(last.result) = Cardinality(ComponentSets(graph))
       /\ {Range(IdsOf(last.result[k].nodes)) : k \in 1..Len(last.result)}
            = ComponentSets(graph)
       /\ \A k \in 1..Len(last.result) : IsLabelGroupEntry(graph, last.result[k])
  /\ last.op = "community" =>
       IF HasNode(graph, last.id)
       THEN /\ ~last.result.isNull
            /\ last.result.value.id = LabelOf(graph, last.id)
            /\ last.id \in Range(IdsOf(last.result.value.nodes))
            /\ IsLabelGroupEntry(graph, last.result.value)
            /\ \E k \in 1..Len(resolveCommunities(graph)) :
                 last.result.value = resolveCommunities(graph)[k]
       ELSE last.result = NullResult

\* communities() returned two entries, one of them with two nodes or more
C22_Witness ==
  /\ last.op = "communities"
  /\ Len(last.result) >= 2
  /\ \E k \in 1..Len(last.result) :
       /\ last.result[k].nodeCount >= 2
       /\ last.result[k].id = CommunityLabel(1)
       /\ IsLabelGroupEntry(graph, last.result[k])

\* the four lists of a work in the order of precedence, each with its label
RoleLists(song) ==
  << <<song.artistIds, "performs">>,
     <<OptList(song.credits, "writers"), "writes">>,
     <<OptList(song.credits, "producers"), "produces">>,
     <<OptList(song.credits, "performers"), "performs">> >>

\* the lists of the work that mention the id, by their place in RoleLists
RolesOf(song, id) ==
  {r \in 1..Len(RoleLists(song)) : id \in Range(RoleLists(song)[r][1])}

\* the label of the first list that mentions the id
FirstMatchLabel(song, id) ==
  IF RolesOf(song, id) = {} THEN "credited"
  ELSE RoleLists(song)[CHOOSE r \in RolesOf(song, id) :
                         \A q \in RolesOf(song, id) : r <= q][2]

\* C23: in work-credit ingestion the label computed for the edge (work, id)
\* is that of the first list that mentions id, in the order primary
\* performers, writers, producers, performer credits, and 'credited' when
\* none does; every credited id gets one edge to the work.
C23_RelationFollowsPrecedence ==
  pc = "albums" =>
    \A k \in 1..Len(input.songs) :
      /\ \A id \in Ids :
           songRelation(input.songs[k], id) = FirstMatchLabel(input.songs[k], id)
      /\ \A id \in Range(allCreditedArtists(input.songs[k])) :
           /\ Occurrences(allCreditedArtists(input.songs[k]), id) = 1
           /\ Adjacent(graph, input.songs[k].id, id)

\* an ingested work mentions one id in its producers and in its performer
\* credits, another in its performer credits only, and a third one in no list
C23_Witness ==
  /\ pc = "albums"
  /\ \E k \in 1..Len(input.songs) : \E id \in Ids, other \in Ids, none \in Ids :
       /\ RolesOf(input.songs[k], id) = {3, 4}
       /\ songRelation(input.songs[k], id) = "produces"
       /\ Adjacent(graph, input.songs[k].id, id)
       /\ RolesOf(input.songs[k], other) = {4}
       /\ songRelation(input.songs[k], other) = "performs"
       /\ RolesOf(input.songs[k], none) = {}
       /\ songRelation(input.songs[k], none) = "credited"

\* every node of g carries the label Ck of its component, k being the place
\* of the component in connectedComponents()
LabelledInComponentOrder(g) ==
  \A k \in 1..Len(connectedComponents(g)) :
    \A id \in Range(connectedComponents(g)[k]) :
      /\ MapHas(g.nodeData, id)
      /\ "communityId" \in DOMAIN MapGet(g.nodeData, id)
      /\ LabelOf(g, id) = CommunityLabel(k - 1)

\* C24: at the end of each of the three ingestion phases (base relations,
\* work credits, collections) every node of the store has a community
\* label, the labels are C1..Ck in connectedComponents() order, and two
\* nodes share a label exactly when they are in one component.
C24_EveryPhaseEndsLabelled ==
  pc \in {"songs", "albums", "assign"} =>
    /\ LabelledInComponentOrder(graph)
    /\ LabelledByComponent(graph)

\* the graph the collections phase starts from
GraphBeforeAlbums(data) == addSongCreditsToGraph(loadBase(data), data)

\* the ids the lists of the collections mention, in ingestion order, each
\* with the kind of its list
AlbumMentions(data) ==
  Flatten([k \in 1..Len(data.albums) |->
             Mentions("artist", data.albums[k].artistIds)
             \o Mentions("song", OptList(data.albums[k], "songIds"))])

AlbumIds(data) == {data.albums[k].id : k \in 1..Len(data.albums)}

\* the kind of the first list that mentions the id
FirstListKind(data, id) ==
  AlbumMentions(data)[CHOOSE i \in 1..Len(AlbumMentions(data)) :
                        /\ AlbumMentions(data)[i][2] = id
                        /\ \A j \in 1..(i - 1) : AlbumMentions(data)[j][2] # id][1]

\* a record without its community label
Unlabelled(record) == [k \in (DOMAIN record) \ {"communityId"} |-> record[k]]

\* the id is a node joined to the collection by an edge of weight 1
LinkedToAlbum(g, album, id) ==
  /\ IsNode(g, id)
  /\ Adjacent(g, album.id, id)
  /\ Adjacent(g, id, album.id)
  /\ WeightOf(g, album.id, id) = 1
  /\ WeightOf(g, id, album.id) = 1

\* the record of a listed id: a stub of the kind when the phase found no
\* record, the record the phase found otherwise
StubOrUnchanged(g0, g, id, kind) ==
  IF MapHas(g0.nodeData, id)
  THEN Unlabelled(MapGet(g.nodeData, id)) = Unlabelled(MapGet(g0.nodeData, id))
  ELSE Unlabelled(MapGet(g.nodeData, id)) = [id |-> id, name |-> id, nodeType |-> kind]

\* C25 as stated: after the collections phase every id of a collection's
\* artist list and of its member-work list is a node joined to the collection
\* with weight 1 in both directions; an absent artist id is an artist stub,
\* an absent work id a work stub, and a record that existed is unchanged
\* apart from its community label.
C25_AlbumsLinkedAndStubbed ==
  pc = "assign" =>
    \A k \in 1..Len(input.albums) :
      /\ \A id \in Range(input.albums[k].artistIds) :
           /\ LinkedToAlbum(graph, input.albums[k], id)
           /\ StubOrUnchanged(GraphBeforeAlbums(input), graph, id, "artist")
      /\ \A id \in Range(OptList(input.albums[k], "songIds")) :
           /\ LinkedToAlbum(graph, input.albums[k], id)
           /\ StubOrUnchanged(GraphBeforeAlbums(input), graph, id, "song")

\* C25 amended: the links are as stated; a listed id that is not the id of
\* a collection is a stub of the kind of the first list that mentions it
\* when the phase found no record, and keeps the record the phase found
\* otherwise; a node whose id is the id of a collection carries the record
\* of a collection.
C25_AlbumsLinkedAndStubbedUnlessAlbum ==
  pc = "assign" =>
    /\ \A k \in 1..Len(input.albums) :
         /\ \A id \in Range(AlbumLists2(input.albums[k])) :
              LinkedToAlbum(graph, input.albums[k], id)
         /\ MapGet(graph.nodeData, input.albums[k].id).nodeType = "album"
    /\ \A i \in 1..Len(AlbumMentions(input)) :
         AlbumMentions(input)[i][2] \notin AlbumIds(input) =>
           StubOrUnchanged(GraphBeforeAlbums(input), graph, AlbumMentions(input)[i][2],
                           FirstListKind(input, AlbumMentions(input)[i][2]))

\* a collection lists an artist that had a record with a name of its own
\* and a work the phase found no record of
C25_Witness ==
  /\ pc = "assign"
  /\ \E k \in 1..Len(input.albums) :
       /\ \E id \in Range(input.albums[k].artistIds) \ AlbumIds(input) :
            /\ MapHas(GraphBeforeAlbums(input).nodeData, id)
            /\ MapGet(graph.nodeData, id).name # id
            /\ MapGet(graph.nodeData, id).nodeType = "artist"
            /\ LinkedToAlbum(graph, input.albums[k], id)
       /\ \E id \in Range(OptList(input.albums[k], "songIds")) \ AlbumIds(input) :
            /\ ~MapHas(GraphBeforeAlbums(input).nodeData, id)
            /\ MapGet(graph.nodeData, id).name = id
            /\ MapGet(graph.nodeData, id).nodeType = "song"
            /\ LinkedToAlbum(graph, input.albums[k], id)

IsPrefix(s, t) == Len(s) <= Len(t) /\ SubSeq(t, 1, Len(s)) = s

\* the ids of seq that are not nodes of g, each once, in the order of seq
RECURSIVE NewIds(_, _)
NewIds(g, seq) ==
  IF seq = <<>> THEN <<>>
  ELSE IF HasNode(g, Head(seq)) THEN NewIds(g, Tail(seq))
  ELSE <<Head(seq)>> \o SelectSeq(NewIds(g, Tail(seq)), LAMBDA x : x # Head(seq))

\* neighbors(id) after a call of addEdge(a, b): b is appended to the
\* neighbours of a, and a to those of b, when the pair was not adjacent
NeighborsAfterEdge(g, a, b, id) ==
  IF Adjacent(g, a, b) THEN neighbors(g, id)
  ELSE IF id = a THEN Append(neighbors(g, id), b)
  ELSE IF id = b THEN Append(neighbors(g, id), a)
  ELSE neighbors(g, id)

\* C27: neighbors(id) lists the neighbours in the order of their first
\* insertion (empty for an unknown id) and nodes() the ids in the order of
\* their first insertion: a call appends what is new and moves nothing, and
\* re-submitting an adjacent pair with another weight or upserting an
\* existing node changes neither order.
C27_OrdersAreInsertionOrders ==
  [][(ops' = ops + 1) =>
       /\ IsPrefix(nodes(graph), nodes(graph'))
       /\ \A id \in Ids : IsPrefix(neighbors(graph, id), neighbors(graph', id))
       /\ \A id \in Ids \ NodeSet(graph') : neighbors(graph', id) = <<>>
       /\ last'.op = "addEdge" =>
            /\ nodes(graph') = nodes(graph) \o NewIds(graph, <<last'.a, last'.b>>)
            /\ \A id \in Ids :
                 neighbors(graph', id) = NeighborsAfterEdge(graph, last'.a, last'.b, id)
       /\ last'.op = "addNode" =>
            /\ nodes(graph') = nodes(graph) \o NewIds(graph, <<NodeKey(last'.node)>>)
            /\ \A id \in Ids : neighbors(graph', id) = neighbors(graph, id)
       /\ last'.op \in {"assignCommunities", "addNodeThrow"} =>
            /\ nodes(graph') = nodes(graph)
            /\ \A id \in Ids : neighbors(graph', id) = neighbors(graph, id)]_vars

\* the pair of the last addEdge call, with another weight than the default,
\* was adjacent before the call: the second id is not the last neighbour of
\* the first
C27_Witness ==
  /\ last.op = "addEdge"
  /\ last.weight # DefaultWeight
  /\ last.a # last.b
  /\ Len(neighbors(graph, last.a)) >= 2
  /\ Head(neighbors(graph, last.a)) = last.b
  /\ WeightOf(graph, last.a, last.b) = last.weight

\* the adjacency of id is the same in g and h: the same neighbours in the
\* same order with the same weights
SameAdjacencyAt(g, h, id) ==
  /\ HasNode(g, id) <=> HasNode(h, id)
  /\ neighbors(g, id) = neighbors(h, id)
  /\ degree(g, id) = degree(h, id)
  /\ \A b \in Range(neighbors(g, id)) : WeightOf(g, id, b) = WeightOf(h, id, b)

\* C28: addNode on an id that exists changes no adjacency entry, weight or
\* degree and leaves the id at its place in nodes(); addNode on a new id
\* appends the id to nodes() with an empty adjacency entry and changes
\* nothing else.
C28_AddNodeKeepsStructure ==
  [][(ops' = ops + 1 /\ last'.op = "addNode") =>
       IF HasNode(graph, NodeKey(last'.node))
       THEN /\ nodes(graph') = nodes(graph)
            /\ \A id \in Ids : SameAdjacencyAt(graph, graph', id)
            /\ graph'.adjacency = graph.adjacency
       ELSE /\ nodes(graph') = Append(nodes(graph), NodeKey(last'.node))
            /\ neighbors(graph', NodeKey(last'.node)) = <<>>
            /\ degree(graph', NodeKey(last'.node)) = 0
            /\ \A id \in Ids \ {NodeKey(last'.node)} :
                 SameAdjacencyAt(graph, graph', id)]_vars

\* the last call was addNode on a node that has two neighbours, one of them
\* by an edge of another weight than the default, and is not the last of
\* nodes()
C28_Witness ==
  /\ last.op = "addNode"
  /\ last.before # <<>>
  /\ degree(graph, NodeKey(last.node)) = 2
  /\ \E b \in Range(neighbors(graph, NodeKey(last.node))) :
       WeightOf(graph, NodeKey(last.node), b) # DefaultWeight
  /\ nodes(graph)[Len(nodes(graph))] # NodeKey(last.node)

\* x and y are in one component of connectedComponents()
SameComponent(g, x, y) ==
  \E k \in 1..Len(connectedComponents(g)) :
    x \in Range(connectedComponents(g)[k]) /\ y \in Range(connectedComponents(g)[k])

\* C29: for nodes x and y of the store, shortestPath(x, y) is a path exactly
\* when x and y are in one component of connectedComponents(), and then
\* shortestPath(y, x) is a path of the same number of hops.
C29_PathsAgreeWithComponents ==
  (last.op = "shortestPath" /\ HasNode(graph, last.from) /\ HasNode(graph, last.to)) =>
    /\ ~last.result.isNull <=> SameComponent(graph, last.from, last.to)
    /\ ~last.result.isNull =>
         /\ ~shortestPath(graph, last.to, last.from).isNull
         /\ Len(shortestPath(graph, last.to, last.from).path) = Len(last.result.path)
    /\ last.result.isNull <=> shortestPath(graph, last.to, last.from).isNull

\* a path of two hops was returned in a store of two components or more
C29_Witness ==
  /\ last.op = "shortestPath"
  /\ ~last.result.isNull
  /\ Len(last.result.path) = 3
  /\ Len(connectedComponents(graph)) >= 2
  /\ SameComponent(graph, last.from, last.to)
  /\ Reverse(shortestPath(graph, last.to, last.from).path) = last.result.path

(***************************************************************************)
(* The two searches step by step: SpecSearch.  A call of shortestPath or   *)
(* connectedComponents runs on the store as it is; frame holds its locals, *)
(* frame.at the statement that runs next, and every step is one test of a  *)
(* loop together with the body it selects.  frame.pushed is the list of    *)
(* the ids the call has put on its queue or stack.  No other call runs     *)
(* before the search has returned.                                         *)
(***************************************************************************)
SearchIds == {IdA, IdC, IdAB}

\* the locals of shortestPath(source, target) at its first statement
SpLocals(source, target) ==
  [fn |-> "shortestPath", at |-> "while", source |-> source, target |-> target,
   queue |-> <<source>>, visited |-> {source}, parent |-> <<>>,
   current |-> source, nbrs |-> <<>>, i |-> 1,
   cur |-> target, path |-> <<target>>,
   pushed |-> <<source>>, result |-> Null]

\* the two tests before the loop of shortestPath
SpBegin(source, target) ==
  /\ pc = "store"
  /\ frame = NoFrame
  /\ frame' =
       IF ~MapHas(graph.adjacency, source) \/ ~MapHas(graph.adjacency, target)
       THEN [SpLocals(source, target) EXCEPT !.at = "done", !.queue = <<>>,
                                             !.pushed = <<>>, !.result = Null]
       ELSE IF source = target
       THEN [SpLocals(source, target) EXCEPT !.at = "done", !.queue = <<>>,
                                             !.pushed = <<>>,
                                             !.result = Some(<<source>>)]
       ELSE SpLocals(source, target)
  /\ pc' = "search"
  /\ UNCHANGED <<graph, last, ops, input>>
  /\ UNCHANGED dataVars

\* while (queue.length): const current = queue.shift()
SpWhile ==
  /\ pc = "search"
  /\ frame.fn = "shortestPath"
  /\ frame.at = "while"
  /\ frame' =
       IF frame.queue = <<>> THEN [frame EXCEPT !.at = "done", !.result = Null]
       ELSE [frame EXCEPT !.at = "for", !.current = Head(frame.queue),
                          !.queue = Tail(frame.queue),
                          !.nbrs = neighbors(graph, Head(frame.queue)), !.i = 1]
  /\ UNCHANGED <<graph, last, ops, pc, input>>
  /\ UNCHANGED dataVars

\* the loop over neighbors(current) that marks every neighbour it queues
\* only when the neighbour is the target
SpForUnmarked ==
  /\ pc = "search"
  /\ frame.fn = "shortestPath"
  /\ frame.at = "for"
  /\ frame' =
       IF frame.i > Len(frame.nbrs) THEN [frame EXCEPT !.at = "while"]
       ELSE LET nbr == frame.nbrs[frame.i] IN
            IF nbr \in frame.visited THEN [frame EXCEPT !.i = @ + 1]
            ELSE IF nbr = frame.target
            THEN [frame EXCEPT !.visited = @ \cup {nbr},
                               !.parent = MapSet(@, nbr, frame.current),
                               !.at = "reconstruct", !.cur = frame.target,
                               !.path = <<frame.target>>]
            ELSE [frame EXCEPT !.parent = MapSet(@, nbr, frame.current),
                               !.queue = Append(@, nbr),
                               !.pushed = Append(@, nbr), !.i = @ + 1]
  /\ UNCHANGED <<graph, last, ops, pc, input>>
  /\ UNCHANGED dataVars

\* for (const nbr of this.neighbors(current)): one neighbour, or the end of
\* the loop
SpFor ==
  /\ pc = "search"
  /\ frame.fn = "shortestPath"
  /\ frame.at = "for"
  /\ frame' =
       IF frame.i > Len(frame.nbrs) THEN [frame EXCEPT !.at = "while"]
       ELSE LET nbr == frame.nbrs[frame.i] IN
            IF nbr \in frame.visited THEN [frame EXCEPT !.i = @ + 1]
            ELSE IF nbr = frame.target
            THEN [frame EXCEPT !.visited = @ \cup {nbr},
                               !.parent = MapSet(@, nbr, frame.current),
                               !.at = "reconstruct", !.cur = frame.target,
                               !.path = <<frame.target>>]
            ELSE [frame EXCEPT !.visited = @ \cup {nbr},
                               !.parent = MapSet(@, nbr, frame.current),
                               !.queue = Append(@, nbr),
                               !.pushed = Append(@, nbr), !.i = @ + 1]
  /\ UNCHANGED <<graph, last, ops, pc, input>>
  /\ UNCHANGED dataVars

\* while (cur !== source) of reconstructPath
SpReconstruct ==
  /\ pc = "search"
  /\ frame.fn = "shortestPath"
  /\ frame.at = "reconstruct"
  /\ frame' =
       IF frame.cur = frame.source
       THEN [frame EXCEPT !.at = "done", !.result = Some(Reverse(frame.path))]
       ELSE IF ~MapHas(frame.parent, frame.cur)
       THEN [frame EXCEPT !.at = "done", !.result = Null]
       ELSE [frame EXCEPT !.cur = MapGet(frame.parent, frame.cur),
                          !.path = Append(@, MapGet(frame.parent, frame.cur))]
  /\ UNCHANGED <<graph, last, ops, pc, input>>
  /\ UNCHANGED dataVars

\* the locals of connectedComponents() at its first statement
CcBegin ==
  /\ pc = "store"
  /\ frame = NoFrame
  /\ frame' = [fn |-> "connectedComponents", at |-> "for",
               order |-> nodes(graph), k |-> 1, visited |-> {},
               components |-> <<>>, comp |-> <<>>, stack |-> <<>>,
               nbrs |-> <<>>, i |-> 1, pushed |-> <<>>, result |-> <<>>]
  /\ pc' = "search"
  /\ UNCHANGED <<graph, last, ops, input>>
  /\ UNCHANGED dataVars

\* for (const start of this.nodes())
CcFor ==
  /\ pc = "search"
  /\ frame.fn = "connectedComponents"
  /\ frame.at = "for"
  /\ frame' =
       IF frame.k > Len(frame.order)
       THEN [frame EXCEPT !.at = "done", !.result = frame.components]
       ELSE IF frame.order[frame.k] \in frame.visited THEN [frame EXCEPT !.k = @ + 1]
       ELSE [frame EXCEPT !.at = "while", !.comp = <<>>,
                          !.stack = <<frame.order[frame.k]>>,
                          !.visited = @ \cup {frame.order[frame.k]},
                          !.pushed = Append(@, frame.order[frame.k])]
  /\ UNCHANGED <<graph, last, ops, pc, input>>
  /\ UNCHANGED dataVars

\* while (stack.length): const node = stack.pop(); comp.push(node)
CcWhile ==
  /\ pc = "search"
  /\ frame.fn = "connectedComponents"
  /\ frame.at = "while"
  /\ frame' =
       IF frame.stack = <<>>
       THEN [frame EXCEPT !.at = "for", !.k = @ + 1,
                          !.components = Append(@, frame.comp)]
       ELSE LET node == frame.stack[Len(frame.stack)] IN
            [frame EXCEPT !.at = "nbrs",
                          !.stack = SubSeq(@, 1, Len(@) - 1),
                          !.comp = Append(@, node),
                          !.nbrs = neighbors(graph, node), !.i = 1]
  /\ UNCHANGED <<graph, last, ops, pc, input>>
  /\ UNCHANGED dataVars

\* for (const nbr of this.neighbors(node))
CcNbr ==
  /\ pc = "search"
  /\ frame.fn = "connectedComponents"
  /\ frame.at = "nbrs"
  /\ frame' =
       IF frame.i > Len(frame.nbrs) THEN [frame EXCEPT !.at = "while"]
       ELSE IF frame.nbrs[frame.i] \in frame.visited THEN [frame EXCEPT !.i = @ + 1]
       ELSE [frame EXCEPT !.visited = @ \cup {frame.nbrs[frame.i]},
                          !.stack = Append(@, frame.nbrs[frame.i]),
                          !.pushed = Append(@, frame.nbrs[frame.i]),
                          !.i = @ + 1]
  /\ UNCHANGED <<graph, last, ops, pc, input>>
  /\ UNCHANGED dataVars

\* the call returns frame.result to its caller
Return ==
  /\ pc = "search"
  /\ frame.at = "done"
  /\ frame' = NoFrame
  /\ pc' = "store"
  /\ UNCHANGED <<graph, last, ops, input>>
  /\ UNCHANGED dataVars

NextSearch ==
  \/ \E i \in SearchIds : AddNode(StubNode(i))
  \/ \E a \in SearchIds, b \in SearchIds : AddEdge(a, b, DefaultWeight)
  \/ \E source \in SearchIds, target \in SearchIds : SpBegin(source, target)
  \/ SpWhile
  \/ SpFor
  \/ SpReconstruct
  \/ CcBegin
  \/ CcFor
  \/ CcWhile
  \/ CcNbr
  \/ Return

SpecSearch == Init /\ [][NextSearch]_vars

\* the nodes the running search has not marked
Unvisited(g, f) == Cardinality(NodeSet(g)) - Cardinality(f.visited)

\* the neighbours the running for loop has still to take, and one for the
\* test that ends the loop
LoopRest(f) == Len(f.nbrs) - f.i + 2

\* a number that every step of a search makes smaller and that is never
\* negative: 0 when the search is done
Variant(g, f) ==
  LET B == Cardinality(NodeSet(g)) + 2 IN
  IF f.at = "done" THEN 0
  ELSE IF f.fn = "shortestPath"
  THEN CASE f.at = "reconstruct" -> Cardinality(NodeSet(g)) + 1 - Len(f.path)
         [] f.at = "while" -> 1 + Unvisited(g, f) * 2 * B + Len(f.queue) * B
         [] f.at = "for" ->
              1 + Unvisited(g, f) * 2 * B + Len(f.queue) * B + LoopRest(f)
  ELSE CASE f.at = "for" ->
              1 + (Len(f.order) - f.k + 1) + Unvisited(g, f) * 2 * B
         [] f.at = "while" ->
              1 + (Len(f.order) - f.k + 1) + Unvisited(g, f) * 2 * B
              + Len(f.stack) * B
         [] f.at = "nbrs" ->
              1 + (Len(f.order) - f.k + 1) + Unvisited(g, f) * 2 * B
              + Len(f.stack) * B + LoopRest(f)

NoDuplicates(seq) == Cardinality(Range(seq)) = Len(seq)

\* following parent from cur reaches source in at most n steps
RECURSIVE ChainReaches(_, _, _, _)
ChainReaches(parent, cur, source, n) ==
  \/ cur = source
  \/ /\ n > 0
     /\ MapHas(parent, cur)
     /\ ChainReaches(parent, MapGet(parent, cur), source, n - 1)

\* what holds of the locals of a running search
SearchIsSound(g, f) ==
  /\ NoDuplicates(f.pushed)
  /\ Variant(g, f) >= 0
  /\ (f.fn = "shortestPath" /\ f.at = "reconstruct") =>
       ChainReaches(f.parent, f.cur, f.source, Cardinality(NodeSet(g)) - Len(f.path))
  /\ (f.fn = "shortestPath" /\ f.at = "done") =>
       f.result = shortestPath(g, f.source, f.target)
  /\ (f.fn = "connectedComponents" /\ f.at = "done") =>
       /\ f.result = connectedComponents(g)
       /\ Range(f.pushed) = NodeSet(g)

\* C30: shortestPath and connectedComponents terminate on every store that
\* addNode and addEdge build, with cycles and self-loops: every step of a
\* search lowers a number that is never negative, no id is put on the queue
\* or the stack twice, and the parent chain that reconstructPath follows
\* reaches the source.
C30_SearchesTerminate ==
  [][frame'.fn # "none" =>
       /\ SearchIsSound(graph', frame')
       /\ frame.fn # "none" => Variant(graph', frame') < Variant(graph, frame)]_vars

\* shortestPath returned a path of two hops from a source that has an edge
\* to itself, after it had put two ids on its queue
C30_Witness ==
  /\ frame.fn = "shortestPath"
  /\ frame.at = "done"
  /\ ~frame.result.isNull
  /\ Len(frame.result.path) = 3
  /\ Adjacent(graph, frame.source, frame.source)
  /\ Len(frame.pushed) = 2

(***************************************************************************)
(* The numbers of degreeCentrality.  A JavaScript number is an IEEE 754    *)
(* double: zero, or mant * 2^exp with mant a sequence of Precision bits,   *)
(* the first of them 1.  The results of 1 / (N - 1) and of degree * scale  *)
(* are rounded to the nearest double, ties to the even one.                *)
(***************************************************************************)
Precision == 53

Zero == [mant |-> <<>>, exp |-> 0]

\* the binary digits of a positive integer, the first of them 1
RECURSIVE Bits(_)
Bits(k) == IF k < 2 THEN <<k>> ELSE Append(Bits(k \div 2), k % 2)

\* the bits of b plus one, from bit i down; one bit longer on overflow
RECURSIVE IncFrom(_, _)
IncFrom(b, i) ==
  IF i = 0 THEN <<1>> \o b
  ELSE IF b[i] = 1 THEN IncFrom([b EXCEPT ![i] = 0], i - 1)
  ELSE [b EXCEPT ![i] = 1]

\* the double nearest to b * 2^exp, b a bit sequence that starts with 1;
\* sticky tells that the exact value is above b * 2^exp
roundToDouble(b, exp, sticky) ==
  IF Len(b) <= Precision
  THEN [mant |-> b \o [j \in 1..(Precision - Len(b)) |-> 0],
        exp |-> exp - (Precision - Len(b))]
  ELSE LET keep == SubSeq(b, 1, Precision)
           e == exp + Len(b) - Precision
           up == /\ b[Precision + 1] = 1
                 /\ \/ sticky
                    \/ \E j \in (Precision + 2)..Len(b) : b[j] = 1
                    \/ keep[Precision] = 1
       IN IF ~up THEN [mant |-> keep, exp |-> e]
          ELSE IF Len(IncFrom(keep, Precision)) > Precision
          THEN [mant |-> SubSeq(IncFrom(keep, Precision), 1, Precision), exp |-> e + 1]
          ELSE [mant |-> IncFrom(keep, Precision), exp |-> e]

\* the conversion of a non-negative integer to a number
toDouble(k) == IF k = 0 THEN Zero ELSE roundToDouble(Bits(k), 0, FALSE)

\* the long division of 1 by n: q are the quotient bits from the first 1 on,
\* the last of them of weight 2^-p
RECURSIVE divideLoop(_, _, _, _)
divideLoop(n, rem, p, q) ==
  IF Len(q) = Precision + 1 THEN roundToDouble(q, 0 - p, rem # 0)
  ELSE LET bit == IF 2 * rem >= n THEN 1 ELSE 0 IN
       divideLoop(n, 2 * rem - n * bit, p + 1,
                  IF q # <<>> \/ bit = 1 THEN Append(q, bit) ELSE q)

\* 1 / n for a positive integer n
divideOne(n) == divideLoop(n, 1, 0, <<>>)

\* the bits of mant * k, from bit i down
RECURSIVE timesLoop(_, _, _, _, _)
timesLoop(mant, i, k, carry, acc) ==
  IF i = 0 THEN (IF carry = 0 THEN acc ELSE Bits(carry) \o acc)
  ELSE timesLoop(mant, i - 1, k, (mant[i] * k + carry) \div 2,
                 <<(mant[i] * k + carry) % 2>> \o acc)

\* k * x for a non-negative integer k and a number x
times(k, x) ==
  IF k = 0 \/ x = Zero THEN Zero
  ELSE roundToDouble(timesLoop(x.mant, Len(x.mant), k, 0, <<>>), x.exp, FALSE)

\* the number this.degree(id) * scale that the pair <<degree, d>> stands for
number(v) == times(v[1], IF v[2] = 1 THEN toDouble(1) ELSE divideOne(v[2]))

(***************************************************************************)
(* degreeCentrality on loaded graphs of up to MaxNodes nodes:              *)
(* SpecCentrality.  The document has the nodes "1", "2", ... and edges     *)
(* from node "1" to the next hubDegree nodes and along a chain of the      *)
(* other nodes.                                                            *)
(***************************************************************************)
NodeId(i) == DecimalString(i)

CentralityDoc(n, hubDegree, chain) ==
  [nodes |-> [i \in 1..n |-> [id |-> NodeId(i), name |-> NodeId(i)]],
   edges |-> [j \in 1..hubDegree |-> [source |-> NodeId(1), target |-> NodeId(j + 1)]]
             \o [j \in 1..chain |-> [source |-> NodeId(j + 1), target |-> NodeId(j + 2)]]]

CentralityDocs ==
  {CentralityDoc(t[1], t[2], t[3]) :
     t \in {u \in (1..MaxNodes) \X (0..MaxNodes) \X (0..MaxNodes) :
              u[2] <= u[1] - 1 /\ u[3] <= u[1] - 2}}
  \cup {CentralityDoc(n, 0, 0) : n \in 1..MaxNodes}

InitCentrality ==
  /\ heap = <<>>
  /\ ds = [graph |-> 0, initialized |-> FALSE]
  /\ files = <<>>
  /\ ctx = <<>>
  /\ frame = NoFrame
  /\ input \in CentralityDocs
  /\ graph = loadGraphFromJson(input)
  /\ last = [op |-> "loadGraphFromJson"]
  /\ ops = 0
  /\ pc = "store"

NextCentrality == \E normalize \in BOOLEAN : DegreeCentrality(normalize)

SpecCentrality == InitCentrality /\ [][NextCentrality]_vars

\* the number of ids adjacent to id
DegreeOf(g, id) == Cardinality({b \in NodeSet(g) \cup {id} : Adjacent(g, id, b)})

\* the scale of the claim: 1, or 1 / (N - 1) when normalizing a graph of
\* two nodes or more
ScaleOf(g, normalize) ==
  IF normalize /\ Cardinality(NodeSet(g)) > 1
  THEN divideOne(Cardinality(NodeSet(g)) - 1)
  ELSE toDouble(1)

\* the result has one entry for every id of nodes(), in that order, and its
\* value is degree(id) * scale
IsScaledDegree(g, normalize, result) ==
  /\ MapKeys(result) = nodes(g)
  /\ \A i \in 1..Len(result) :
       number(result[i][2]) = times(DegreeOf(g, result[i][1]), ScaleOf(g, normalize))

IsPowerOfTwo(n) == \E k \in 0..n : Bits(n) = <<1>> \o [j \in 1..k |-> 0]

\* C26 as stated: degreeCentrality(normalize) gives every id of nodes() the
\* value degree(id) * scale, scale being 1 when normalize is false or the
\* graph has at most one node and 1 / (N - 1) otherwise, and when
\* normalizing with N > 1, value * (N - 1) = degree(id).
C26_ScaledDegreeTimesDivisorIsDegree ==
  last.op = "degreeCentrality" =>
    /\ IsScaledDegree(graph, last.normalize, last.result)
    /\ (last.normalize /\ Cardinality(NodeSet(graph)) > 1) =>
         \A i \in 1..Len(last.result) :
           times(Cardinality(NodeSet(graph)) - 1, number(last.result[i][2]))
             = toDouble(DegreeOf(graph, last.result[i][1]))

\* C26 amended: the value is the double degree(id) * scale, and
\* value * (N - 1) = degree(id) when the degree is 0 or N - 1 is a power of
\* two.
C26_ScaledDegreeIsRoundedProduct ==
  last.op = "degreeCentrality" =>
    /\ IsScaledDegree(graph, last.normalize, last.result)
    /\ (last.normalize /\ Cardinality(NodeSet(graph)) > 1) =>
         \A i \in 1..Len(last.result) :
           (\/ DegreeOf(graph, last.result[i][1]) = 0
            \/ IsPowerOfTwo(Cardinality(NodeSet(graph)) - 1)) =>
             times(Cardinality(NodeSet(graph)) - 1, number(last.result[i][2]))
               = toDouble(DegreeOf(graph, last.result[i][1]))

\* the normalized centrality of a graph of six nodes: the value of a node
\* of degree 3 times 5 is not 3, the value of a node of degree 1 times 5
\* is 1
C26_Witness ==
  /\ last.op = "degreeCentrality"
  /\ last.normalize
  /\ Cardinality(NodeSet(graph)) = 6
  /\ \E i \in 1..Len(last.result) :
       /\ DegreeOf(graph, last.result[i][1]) = 3
       /\ times(5, number(last.result[i][2])) # toDouble(3)
  /\ \E i \in 1..Len(last.result) :
       /\ DegreeOf(graph, last.result[i][1]) = 1
       /\ times(5, number(last.result[i][2])) = toDouble(1)

====
